---- MODULE Spec2Model ----
(***************************************************************************)
(* gotest-watch: the Dispatcher state machine, the Runner it spawns, the   *)
(* channels between them and the gate channel towards the stdin Reader.    *)
(*                                                                         *)
(* The repository holds three generations of the function dispatcher:      *)
(*   "silent"  src/dispatcher.go            two selects, silent drain,     *)
(*                                          unbounded shutdown wait        *)
(*   "ack"     src/unnamed/part_001:134-243 two selects, acknowledged      *)
(*                                          drain, 5 s shutdown timeout    *)
(*   "gate"    src/unnamed/part_001:253-323 one select, gate channel       *)
(*                                          readyChan, context checked     *)
(*                                          first                          *)
(* impl selects the generation a behaviour runs.                           *)
(*                                                                         *)
(* Besides Spec (dispatcher, producers and Runners together) the module    *)
(* holds one specification for each component taken alone:                 *)
(*   RunnerSpec   runTests under a caller (part_010, part_008, part_011)   *)
(*   ReaderSpec   ReadStdin and parseCommand (src/internal/stdin_reader.go)*)
(*   WatcherSpec  watchFiles and debounceLoop, with a clock                *)
(*                (src/file_watcher.go, both generations)                  *)
(*   WalkSpec     addWatchRecursive over a directory tree                  *)
(* In each of them the variables of the other components keep their        *)
(* initial values.                                                         *)
(***************************************************************************)
EXTENDS Integers, Sequences, FiniteSets, TLC

\* ------------------------------------------------------------ bounds
\* messages the producers (Watcher, Reader) emit in one behaviour
MaxEvents == 3
\* lines the external process writes on each of its two pipes
MaxLines == 1
\* lines on the input stream ReadStdin scans
MaxStdin == 2
\* filesystem events delivered to watchFiles in one behaviour
MaxFsEvents == 3
\* the last tick of the clock
MaxTime == 6
\* entries (directories and files) of the tree under the root, root included
MaxNodes == 4

\* ------------------------------------------------- program constants
\* capacity of the command, help, file-change and completion channels
ChanCap == 10
\* capacity of the gate channel readyChan
GateCap == 1
\* the quiet period of the debounce timer, 200 ms, in ticks of 100 ms
Quiet == 2
\* capacity of the debounce channel of the Watcher that has a start signal
DebounceCap == 10

Impls == {"silent", "ack", "gate"}
\* the force-run command and one registered command that mutates the config
ForceRunCmd == "f"
VerboseCmd == "v"
Cmds == {ForceRunCmd, VerboseCmd}
Runs == 1..MaxEvents

VARIABLES
  impl,             \* which dispatcher generation runs
  ctxDone,          \* the context is cancelled
  events,           \* messages emitted by the producers so far
  fileChangeChan,   \* pending FileChangeMessage values (no payload): a count
  commandChan,      \* pending CommandMessage values: their commands, in order
  helpChan,         \* pending HelpMessage values: a count
  testCompleteChan, \* pending TestCompleteMessage values: the run that sent each
  readyChan,        \* the gate channel: pending booleans
  dpc,              \* the dispatcher's position
  testRunning,      \* the dispatcher's run state
  config,           \* the configuration record
  spawned,          \* Runners spawned so far (go runTests)
  handled,          \* handler invocations so far (handleCommand, handleHelp)
  completed,        \* run-complete messages received by the main select
  received,         \* runs whose completion message the dispatcher received
  gateLog,          \* the values the dispatcher sent on readyChan, in order
  exitKind,         \* how the dispatcher returned
  shutdownPrinted,  \* "Shutting down..." was printed
  runner,           \* the state of each Runner invocation
  rdpc,             \* the Reader's position: "gate" or "scan"
  rdReady,          \* the Reader's current gate state
  rimpl,            \* which Runner generation runs
  hasConfig,        \* the context passed to the Runner carries the config
  runnerGate,       \* values the Runners sent on the gate channel so far
  stdin,            \* the lines not yet read from the input stream
  rpc,              \* ReadStdin's position
  line,             \* the line ReadStdin scanned last
  routed,           \* the messages ReadStdin sent: the line and the channel
  scanned,          \* the lines scanner.Scan() has returned so far
  wimpl,            \* which Watcher generation runs
  wpc,              \* watchFiles' position
  startClosed,      \* main closed the start channel
  startReceived,    \* watchFiles received the start signal
  watching,         \* the fsnotify watcher holds its watches
  now,              \* the time, in ticks
  dbpc,             \* debounceLoop's position
  timer,            \* the deadline of debounceLoop's timer, -1: not armed
  debounceChan,     \* pending events on the debounce channel
  event,            \* debounceLoop's local event
  op,               \* debounceLoop's local op is not zero
  pending,          \* the event watchFiles is blocked sending
  qualTimes,        \* arrival times of the qualifying events
  otherTimes,       \* arrival times of the other events
  signalTimes,      \* the times the file-changed signals were sent
  tree,             \* the directory tree under the root
  walkpc,           \* addWatchRecursive's position
  walkTodo,         \* the entries WalkDir has still to visit, in order
  registered,       \* the directories added to the fsnotify watcher
  delivered,        \* the files a change of which fsnotify reported
  mpc,              \* main's position in the startup sequence
  tc,               \* the TestConfig record with all its fields
  cpc,              \* where the program is with respect to that record
  lastMsg,          \* the command message handled last
  herr,             \* the handler invoked last returned an error
  ran,              \* the invocation the Runner in flight has made
  fcLate,           \* for each pending FileChangeMessage of the dispatcher:
                    \* it was sent while a run was in flight
  cmdLate,          \* the same for each pending CommandMessage
  readOrder,        \* the pending command and help messages ("command" or
                    \* "help"), in the order in which their lines were read
  cgen,             \* the generation of TestConfig and of its handlers
  hwhen,            \* when the dispatcher invokes handlers: "idle", "always"
  racc,             \* the Runner's position among its reads of the record
  hacc,             \* the write of the record the handler is making
  rlocks,           \* holders of the read lock of the record
  wlock,            \* the write lock of the record is held
  aruns             \* Runners spawned so far over that record

vars == <<impl, ctxDone, events, fileChangeChan, commandChan, helpChan,
          testCompleteChan, readyChan, dpc, testRunning, config, spawned,
          handled, completed, received, gateLog, exitKind, shutdownPrinted,
          runner, rdpc, rdReady, rimpl, hasConfig, runnerGate,
          stdin, rpc, line, routed, scanned, wimpl, wpc, startClosed, startReceived,
          watching, now, dbpc, timer, debounceChan, event, op, pending,
          qualTimes, otherTimes, signalTimes, tree, walkpc, walkTodo,
          registered, delivered, mpc, tc, cpc, lastMsg, herr, ran, fcLate,
          cmdLate, readOrder, cgen, hwhen, racc, hacc, rlocks, wlock, aruns>>

chans == <<fileChangeChan, commandChan, helpChan, testCompleteChan>>
dstate == <<testRunning, config, spawned, handled, completed, received,
            exitKind, shutdownPrinted>>
reader == <<rdpc, rdReady>>
rnvars == <<rimpl, hasConfig, runnerGate>>
rsvars == <<stdin, rpc, line, routed, scanned>>
wvars == <<wimpl, wpc, startClosed, startReceived, watching, now, dbpc,
           timer, debounceChan, event, op, pending, qualTimes, otherTimes,
           signalTimes>>
wkvars == <<tree, walkpc, walkTodo, registered, delivered>>
mnvars == <<mpc>>
cfvars == <<tc, cpc, lastMsg, herr, ran>>
\* the variables no component's own actions touch: main's and those of the
\* configuration record
qvars == <<fcLate, cmdLate, readOrder>>
acvars == <<cgen, hwhen, racc, hacc, rlocks, wlock, aruns>>
rest == <<mnvars, cfvars, qvars, acvars>>
\* the variables of the components the Runner's harness never touches
othersOfRunner == <<rsvars, wvars, wkvars, rest>>
\* the variables of the components the dispatcher's actions never touch
others == <<rnvars, othersOfRunner>>
\* the same without the record of when the pending messages were sent
othersButSent == <<rnvars, rsvars, wvars, wkvars, mnvars, cfvars, acvars>>

\* a Runner invocation that has not been made yet
NoRunner == [pc |-> "none", out |-> 0, err |-> 0, outDone |-> FALSE,
             errDone |-> FALSE, exited |-> FALSE, code |-> 0, sent |-> 0,
             outcome |-> "none"]

NewTestConfig == [Verbose |-> FALSE]

\* the Runner the mains and the dispatchers call: it reads the config that
\* main stored in the context, and it is not handed the gate channel
RunnerFromContext ==
  /\ rimpl = "context"
  /\ hasConfig = TRUE
  /\ runnerGate = 0

\* the zero value of fsnotify.Event
NoEvent == [go |-> FALSE, tracked |-> FALSE]

\* watchFiles is not running
WatchFilesOff ==
  /\ wimpl = "none"
  /\ wpc = "off"
  /\ startClosed = FALSE
  /\ startReceived = FALSE
  /\ watching = FALSE
  /\ now = 0
  /\ dbpc = "none"
  /\ timer = -1
  /\ debounceChan = <<>>
  /\ event = NoEvent
  /\ op = FALSE
  /\ pending = NoEvent
  /\ qualTimes = <<>>
  /\ otherTimes = <<>>
  /\ signalTimes = <<>>

\* addWatchRecursive is not running
WalkOff ==
  /\ tree = <<>>
  /\ walkpc = "off"
  /\ walkTodo = <<>>
  /\ registered = {}
  /\ delivered = {}

\* main's startup sequence is not followed
MainOff == mpc = "off"

\* the Runner has made no invocation
NoRun == [cleared |-> FALSE, built |-> <<>>, displayed |-> <<>>, prog |-> <<>>,
          args |-> <<>>]

\* no command message has been handled
NoMsg == [Command |-> <<>>, Args |-> <<>>]

\* the full configuration record is not followed
ConfigOff ==
  /\ tc = <<>>
  /\ cpc = "off"
  /\ lastMsg = NoMsg
  /\ herr = FALSE
  /\ ran = NoRun

\* no message is pending on the dispatcher's channels
SentOff == fcLate = <<>> /\ cmdLate = <<>> /\ readOrder = <<>>

\* the Runner reads nothing
NoRead == [idx |-> 0, in |-> FALSE]

\* no handler writes
NoWrite == [in |-> FALSE, fields |-> {}]

\* the accesses to the record are not followed
AccessOff ==
  /\ cgen = "none"
  /\ hwhen = "none"
  /\ racc = NoRead
  /\ hacc = NoWrite
  /\ rlocks = 0
  /\ wlock = FALSE
  /\ aruns = 0

RestOff == MainOff /\ ConfigOff /\ SentOff /\ AccessOff

\* ReadStdin is not running: there is no input stream
ReadStdinOff ==
  /\ stdin = <<>>
  /\ rpc = "off"
  /\ line = <<>>
  /\ routed = <<>>
  /\ scanned = <<>>

Init ==
  /\ impl \in Impls
  /\ ctxDone = FALSE
  /\ events = 0
  /\ fileChangeChan = 0
  /\ commandChan = <<>>
  /\ helpChan = 0
  /\ testCompleteChan = <<>>
  /\ readyChan = <<>>
  /\ dpc = "start"
  /\ testRunning = FALSE
  /\ config = NewTestConfig
  /\ spawned = 0
  /\ handled = 0
  /\ completed = 0
  /\ received = {}
  /\ gateLog = <<>>
  /\ exitKind = "none"
  /\ shutdownPrinted = FALSE
  /\ runner = [i \in Runs |-> NoRunner]
  /\ rdpc = IF impl = "gate" THEN "gate" ELSE "scan"
  /\ rdReady = (impl # "gate")
  /\ RunnerFromContext
  /\ ReadStdinOff
  /\ WalkOff
  /\ WatchFilesOff
  /\ RestOff

\* ------------------------------------------------------------ context
\* cancel(): the signal handler cancels the context
CtxCancel ==
  /\ ~ctxDone
  /\ ctxDone' = TRUE
  /\ UNCHANGED <<impl, others, events, chans, readyChan, dpc, dstate, gateLog, runner,
                 reader>>

\* ---------------------------------------------------------- producers
\* the Watcher puts one FileChangeMessage on its channel
\* a Runner is executing: it was spawned and has not sent its completion
RunInFlight ==
  \E r \in Runs : runner[r].pc \in {"init", "streaming", "wait", "send"}

WatcherEmit ==
  /\ ~ctxDone
  /\ events < MaxEvents
  /\ fileChangeChan < ChanCap
  /\ fileChangeChan' = fileChangeChan + 1
  /\ fcLate' = Append(fcLate, RunInFlight)
  /\ events' = events + 1
  /\ UNCHANGED <<impl, othersButSent, cmdLate, readOrder, ctxDone, commandChan, helpChan, testCompleteChan,
                 readyChan, dpc, dstate, gateLog, runner, reader>>

\* where the Reader goes after it has sent the message of a line
AfterLine == IF impl = "gate" THEN "gate" ELSE "scan"

\* the Reader reads a line whose first token is the command c and sends it
ReaderCommand(c) ==
  /\ ~ctxDone
  /\ rdpc = "scan"
  /\ events < MaxEvents
  /\ Len(commandChan) < ChanCap
  /\ commandChan' = Append(commandChan, c)
  /\ cmdLate' = Append(cmdLate, RunInFlight)
  /\ readOrder' = Append(readOrder, "command")
  /\ events' = events + 1
  /\ rdpc' = AfterLine
  /\ UNCHANGED <<impl, othersButSent, fcLate, ctxDone, fileChangeChan, helpChan, testCompleteChan,
                 readyChan, dpc, dstate, gateLog, runner, rdReady>>

\* the Reader reads a help line and sends a HelpMessage
ReaderHelp ==
  /\ ~ctxDone
  /\ rdpc = "scan"
  /\ events < MaxEvents
  /\ helpChan < ChanCap
  /\ helpChan' = helpChan + 1
  /\ readOrder' = Append(readOrder, "help")
  /\ events' = events + 1
  /\ rdpc' = AfterLine
  /\ UNCHANGED <<impl, othersButSent, fcLate, cmdLate, ctxDone, fileChangeChan, commandChan, testCompleteChan,
                 readyChan, dpc, dstate, gateLog, runner, rdReady>>

\* the gated Reader, gate closed: it waits on the gate channel for a value
ReaderGateWait ==
  /\ ~ctxDone
  /\ impl = "gate"
  /\ rdpc = "gate"
  /\ ~rdReady
  /\ readyChan # <<>>
  /\ rdReady' = Head(readyChan)
  /\ readyChan' = Tail(readyChan)
  /\ UNCHANGED <<impl, others, ctxDone, events, chans, dpc, dstate, gateLog, runner,
                 rdpc>>

\* the gated Reader, gate open: it takes a newer gate value if one is pending,
\* without blocking, and goes on to read a line unless the gate closed
ReaderGatePoll ==
  /\ ~ctxDone
  /\ impl = "gate"
  /\ rdpc = "gate"
  /\ rdReady
  /\ IF readyChan # <<>>
     THEN /\ rdReady' = Head(readyChan)
          /\ readyChan' = Tail(readyChan)
          /\ rdpc' = IF Head(readyChan) THEN "scan" ELSE "gate"
     ELSE /\ rdpc' = "scan"
          /\ UNCHANGED <<rdReady, readyChan>>
  /\ UNCHANGED <<impl, others, ctxDone, events, chans, dpc, dstate, gateLog, runner>>

\* ------------------------------------------------------------- Runner
InFlight(r) == r.pc \in {"init", "streaming", "wait", "send"}

RunnerFrame == UNCHANGED <<impl, others, ctxDone, events, fileChangeChan, commandChan,
                           helpChan, readyChan, dpc, dstate, gateLog, reader>>

\* getConfig(ctx) != nil; the Runner that takes the config as a parameter
\* always has it
ConfigFound == rimpl = "gated" \/ hasConfig

\* config := getConfig(ctx); if config == nil: the error is printed, return
RunnerNoConfig(i) ==
  /\ runner[i].pc = "init"
  /\ ~ConfigFound
  /\ runner' = [runner EXCEPT ![i].pc = "returned", ![i].outcome = "noConfig"]
  /\ UNCHANGED testCompleteChan
  /\ RunnerFrame

\* cmd.StdoutPipe() or cmd.StderrPipe() fails: the error is printed, return
RunnerPipeFail(i) ==
  /\ runner[i].pc = "init"
  /\ ConfigFound
  /\ runner' = [runner EXCEPT ![i].pc = "returned", ![i].outcome = "pipeFail"]
  /\ UNCHANGED testCompleteChan
  /\ RunnerFrame

\* cmd.Start() fails (also: the context is already cancelled): print, return
RunnerStartFail(i) ==
  /\ runner[i].pc = "init"
  /\ ConfigFound
  /\ runner' = [runner EXCEPT ![i].pc = "returned", ![i].outcome = "startFail"]
  /\ UNCHANGED testCompleteChan
  /\ RunnerFrame

\* cmd.Start() succeeds: the process will write o lines on stdout and e lines
\* on stderr; wg.Add(2) and the two drain tasks are started
RunnerStart(i, o, e) ==
  /\ runner[i].pc = "init"
  /\ ConfigFound
  /\ ~ctxDone
  /\ runner' = [runner EXCEPT ![i].pc = "streaming", ![i].out = o,
                              ![i].err = e, ![i].outcome = "started"]
  /\ UNCHANGED testCompleteChan
  /\ RunnerFrame

\* streamOutput on stdout: one line is scanned and written to the sink
StreamStdout(i) ==
  /\ runner[i].pc = "streaming"
  /\ ~runner[i].outDone
  /\ runner[i].out > 0
  /\ runner' = [runner EXCEPT ![i].out = @ - 1]
  /\ UNCHANGED testCompleteChan
  /\ RunnerFrame

\* streamOutput on stdout: Scan returns false; wg.Done()
StdoutEnd(i) ==
  /\ runner[i].pc = "streaming"
  /\ ~runner[i].outDone
  /\ runner[i].out = 0
  /\ runner' = [runner EXCEPT ![i].outDone = TRUE]
  /\ UNCHANGED testCompleteChan
  /\ RunnerFrame

\* streamOutput on stderr: one line is scanned and written to the sink
StreamStderr(i) ==
  /\ runner[i].pc = "streaming"
  /\ ~runner[i].errDone
  /\ runner[i].err > 0
  /\ runner' = [runner EXCEPT ![i].err = @ - 1]
  /\ UNCHANGED testCompleteChan
  /\ RunnerFrame

\* streamOutput on stderr: Scan returns false; wg.Done()
StderrEnd(i) ==
  /\ runner[i].pc = "streaming"
  /\ ~runner[i].errDone
  /\ runner[i].err = 0
  /\ runner' = [runner EXCEPT ![i].errDone = TRUE]
  /\ UNCHANGED testCompleteChan
  /\ RunnerFrame

\* the external process exits with code c (killed when the context is
\* cancelled), at any moment after it was started
ProcessExit(i, c) ==
  /\ runner[i].pc \in {"streaming", "wait"}
  /\ ~runner[i].exited
  /\ runner' = [runner EXCEPT ![i].exited = TRUE, ![i].code = c]
  /\ UNCHANGED testCompleteChan
  /\ RunnerFrame

\* mutant of WaitGroupDone: wg.Wait() is not called before the completion send
WaitGroupSkipped(r) == TRUE

\* wg.Wait() returns once both drain tasks called wg.Done()
WaitGroupDone(r) == r.outDone /\ r.errDone

RunnerWgWait(i) ==
  /\ runner[i].pc = "streaming"
  /\ WaitGroupDone(runner[i])
  /\ runner' = [runner EXCEPT ![i].pc = "wait"]
  /\ UNCHANGED testCompleteChan
  /\ RunnerFrame

\* cmd.Wait() returns once the process has exited; a non-zero exit is logged
RunnerCmdWait(i) ==
  /\ runner[i].pc = "wait"
  /\ runner[i].exited
  /\ runner' = [runner EXCEPT ![i].pc = "send"]
  /\ UNCHANGED testCompleteChan
  /\ RunnerFrame

\* what follows the completion send: the Runner that is handed the gate
\* channel sends on it, the others return
AfterComplete == IF rimpl = "gated" THEN "gate" ELSE "returned"

\* completeChan <- TestCompleteMessage{}
RunnerSendComplete(i) ==
  /\ runner[i].pc = "send"
  /\ Len(testCompleteChan) < ChanCap
  /\ testCompleteChan' = Append(testCompleteChan, i)
  /\ runner' = [runner EXCEPT ![i].pc = AfterComplete, ![i].sent = @ + 1]
  /\ RunnerFrame

\* readyChan <- true; return (the Runner that is handed the gate channel)
RunnerGateSend(i) ==
  /\ runner[i].pc = "gate"
  /\ Len(readyChan) < GateCap
  /\ readyChan' = Append(readyChan, TRUE)
  /\ runnerGate' = runnerGate + 1
  /\ runner' = [runner EXCEPT ![i].pc = "returned"]
  /\ UNCHANGED <<impl, ctxDone, events, chans, dpc, dstate, gateLog, reader,
                 rimpl, hasConfig, othersOfRunner>>

RunnerStep(i) ==
  \/ RunnerPipeFail(i)
  \/ RunnerStartFail(i)
  \/ \E o \in 0..MaxLines, e \in 0..MaxLines : RunnerStart(i, o, e)
  \/ StreamStdout(i)
  \/ StdoutEnd(i)
  \/ StreamStderr(i)
  \/ StderrEnd(i)
  \/ \E c \in {0, 1} : ProcessExit(i, c)
  \/ RunnerWgWait(i)
  \/ RunnerCmdWait(i)
  \/ RunnerSendComplete(i)

\* --------------------------------------------------------- Dispatcher
\* the command registry: handleVerbose toggles Verbose, handleRun does nothing
HandleCommand(cmd, cfg) ==
  IF cmd = VerboseCmd THEN [cfg EXCEPT !.Verbose = ~cfg.Verbose] ELSE cfg

\* mutant of HandleHelp: the help handler toggles the verbose flag
HandleHelpToggles(cfg) == [cfg EXCEPT !.Verbose = ~cfg.Verbose]

\* handleHelp prints the list of commands and ignores its config parameter
HandleHelp(cfg) == cfg

\* mutant of RunsTests: every command is followed by a run
RunsTestsAlways(cmd) == TRUE

\* the command after whose handler the dispatcher spawns a Runner
RunsTests(cmd) == cmd = ForceRunCmd

\* where the loop goes after a case of the select: the gate dispatcher checks
\* the context first
LoopTop == IF impl = "gate" THEN "check" ELSE "select"

\* mutant of SpawnAllowed: the run state is not consulted before a spawn
SpawnAlways == TRUE

\* a Runner is spawned only from the idle branch (if !testRunning)
SpawnAllowed == ~testRunning

\* the handler of a command or help message is invoked: in the idle select of
\* the two-select dispatchers, in every state of the gate dispatcher
HandlerInvoked == IF impl = "gate" THEN TRUE ELSE ~testRunning

\* mutant of ShutdownMustWait: cancellation returns at once in every state
ShutdownNeverWaits == FALSE

\* on cancellation the dispatcher waits for the completion of a run in flight
ShutdownMustWait == testRunning

\* mutant of GateOnComplete: the gate is closed again after a run
GateOnCompleteClosed == FALSE

\* the value sent on the gate after a run-complete message
GateOnComplete == TRUE

\* the value sent on the gate when a run is spawned
GateOnSpawn == FALSE

\* go runTests(...)
Spawn ==
  /\ spawned' = spawned + 1
  /\ runner' = [runner EXCEPT ![spawned + 1].pc = "init"]

\* readyChan <- v completes
GateSend(v) ==
  /\ readyChan' = Append(readyChan, v)
  /\ gateLog' = Append(gateLog, v)

GateFull == Len(readyChan) >= GateCap

\* testRunning = true; (gate dispatcher: readyChan <- false;) go runTests
StartRun ==
  /\ testRunning' = TRUE
  /\ IF impl = "gate"
     THEN IF GateFull
          THEN /\ dpc' = "sendClosed"
               /\ UNCHANGED <<readyChan, gateLog, spawned, runner>>
          ELSE /\ GateSend(GateOnSpawn)
               /\ Spawn
               /\ dpc' = LoopTop
     ELSE /\ Spawn
          /\ dpc' = LoopTop
          /\ UNCHANGED <<readyChan, gateLog>>

\* the initial prompt; the gate dispatcher first sends readyChan <- true
DispatcherStart ==
  /\ dpc = "start"
  /\ IF impl = "gate"
     THEN ~GateFull /\ GateSend(TRUE)
     ELSE UNCHANGED <<readyChan, gateLog>>
  /\ dpc' = LoopTop
  /\ UNCHANGED <<impl, others, ctxDone, events, chans, dstate, runner, reader>>

\* gate dispatcher, top of the loop: select { case <-ctx.Done(): ... default: }
CheckDefault ==
  /\ dpc = "check"
  /\ ~ctxDone
  /\ dpc' = "select"
  /\ UNCHANGED <<impl, others, ctxDone, events, chans, readyChan, dstate, gateLog,
                 runner, reader>>

\* case <-ctx.Done(): wait for the run in flight, or print and return
Shutdown ==
  IF ShutdownMustWait
  THEN /\ dpc' = "wait"
       /\ UNCHANGED <<exitKind, shutdownPrinted>>
  ELSE /\ dpc' = "done"
       /\ exitKind' = "idle"
       /\ shutdownPrinted' = TRUE

OnCtxDone ==
  /\ dpc \in {"check", "select"}
  /\ ctxDone
  /\ Shutdown
  /\ UNCHANGED <<impl, others, ctxDone, events, chans, readyChan, testRunning, config,
                 spawned, handled, completed, received, gateLog, runner,
                 reader>>

\* the sequence s without its first element equal to x: the receive of the
\* oldest message of one channel (Go channels are FIFO)
RemoveFirst(s, x) ==
  LET i == CHOOSE j \in 1..Len(s) : s[j] = x /\ \A k \in 1..(j - 1) : s[k] # x
  IN  SubSeq(s, 1, i - 1) \o SubSeq(s, i + 1, Len(s))

\* case <-fileChangeChan
OnFileChange ==
  /\ dpc = "select"
  /\ fileChangeChan > 0
  /\ fileChangeChan' = fileChangeChan - 1
  /\ fcLate' = Tail(fcLate)
  /\ IF SpawnAllowed
     THEN StartRun
     ELSE /\ dpc' = LoopTop
          /\ UNCHANGED <<testRunning, readyChan, gateLog, spawned, runner>>
  /\ UNCHANGED <<impl, othersButSent, cmdLate, readOrder, ctxDone, events, commandChan, helpChan,
                 testCompleteChan, config, handled, completed, received,
                 exitKind, shutdownPrinted, reader>>

\* case cmd := <-commandChan
OnCommand ==
  /\ dpc = "select"
  /\ commandChan # <<>>
  /\ commandChan' = Tail(commandChan)
  /\ cmdLate' = Tail(cmdLate)
  /\ readOrder' = RemoveFirst(readOrder, "command")
  /\ IF HandlerInvoked
     THEN /\ handled' = handled + 1
          /\ config' = HandleCommand(Head(commandChan), config)
     ELSE UNCHANGED <<handled, config>>
  /\ IF SpawnAllowed /\ RunsTests(Head(commandChan))
     THEN StartRun
     ELSE /\ dpc' = LoopTop
          /\ UNCHANGED <<testRunning, readyChan, gateLog, spawned, runner>>
  /\ UNCHANGED <<impl, othersButSent, fcLate, ctxDone, events, fileChangeChan, helpChan,
                 testCompleteChan, completed, received, exitKind,
                 shutdownPrinted, reader>>

\* case <-helpChan
OnHelp ==
  /\ dpc = "select"
  /\ helpChan > 0
  /\ helpChan' = helpChan - 1
  /\ readOrder' = RemoveFirst(readOrder, "help")
  /\ IF HandlerInvoked
     THEN /\ handled' = handled + 1
          /\ config' = HandleHelp(config)
     ELSE UNCHANGED <<handled, config>>
  /\ dpc' = LoopTop
  /\ UNCHANGED <<impl, othersButSent, fcLate, cmdLate, ctxDone, events, fileChangeChan, commandChan,
                 testCompleteChan, readyChan, testRunning, spawned,
                 completed, received, gateLog, exitKind, shutdownPrinted,
                 runner, reader>>

\* case <-testCompleteChan: a case of the running select of the two-select
\* dispatchers and of the single select of the gate dispatcher. The "ack"
\* dispatcher then drains the commands and help requests that accumulated;
\* the gate dispatcher sends readyChan <- true
OnTestComplete ==
  /\ dpc = "select"
  /\ impl = "gate" \/ testRunning
  /\ testCompleteChan # <<>>
  /\ testCompleteChan' = Tail(testCompleteChan)
  /\ received' = received \cup {Head(testCompleteChan)}
  /\ completed' = completed + 1
  /\ testRunning' = FALSE
  /\ IF impl = "ack"
     THEN /\ commandChan' = <<>> /\ cmdLate' = <<>> /\ helpChan' = 0
          /\ readOrder' = <<>>
     ELSE UNCHANGED <<commandChan, cmdLate, helpChan, readOrder>>
  /\ IF impl = "gate"
     THEN IF GateFull
          THEN dpc' = "sendOpen" /\ UNCHANGED <<readyChan, gateLog>>
          ELSE dpc' = LoopTop /\ GateSend(GateOnComplete)
     ELSE dpc' = LoopTop /\ UNCHANGED <<readyChan, gateLog>>
  /\ UNCHANGED <<impl, othersButSent, fcLate, ctxDone, events, fileChangeChan,
                 config, spawned, handled, exitKind, shutdownPrinted, runner,
                 reader>>

\* the blocked readyChan <- false completes; go runTests
GateClosedSent ==
  /\ dpc = "sendClosed"
  /\ ~GateFull
  /\ GateSend(GateOnSpawn)
  /\ Spawn
  /\ dpc' = LoopTop
  /\ UNCHANGED <<impl, others, ctxDone, events, chans, testRunning, config, handled,
                 completed, received, exitKind, shutdownPrinted, reader>>

\* the blocked readyChan <- true completes
GateOpenSent ==
  /\ dpc = "sendOpen"
  /\ ~GateFull
  /\ GateSend(GateOnComplete)
  /\ dpc' = LoopTop
  /\ UNCHANGED <<impl, others, ctxDone, events, chans, dstate, runner, reader>>

\* shutdown wait: <-testCompleteChan; "Shutting down..."; return
ShutdownComplete ==
  /\ dpc = "wait"
  /\ testCompleteChan # <<>>
  /\ testCompleteChan' = Tail(testCompleteChan)
  /\ received' = received \cup {Head(testCompleteChan)}
  /\ dpc' = "done"
  /\ exitKind' = "complete"
  /\ shutdownPrinted' = TRUE
  /\ UNCHANGED <<impl, others, ctxDone, events, fileChangeChan, commandChan, helpChan,
                 readyChan, testRunning, config, spawned, handled, completed,
                 gateLog, runner, reader>>

\* shutdown wait of the "ack" dispatcher: <-time.After(5 * time.Second);
\* the timeout diagnostic goes to stderr; return
ShutdownTimeout ==
  /\ dpc = "wait"
  /\ impl = "ack"
  /\ dpc' = "done"
  /\ exitKind' = "timeout"
  /\ UNCHANGED <<impl, others, ctxDone, events, chans, readyChan, testRunning, config,
                 spawned, handled, completed, received, gateLog,
                 shutdownPrinted, runner, reader>>

DispatcherStep ==
  \/ DispatcherStart
  \/ CheckDefault
  \/ OnCtxDone
  \/ OnFileChange
  \/ OnCommand
  \/ OnHelp
  \/ OnTestComplete
  \/ GateClosedSent
  \/ GateOpenSent
  \/ ShutdownComplete
  \/ ShutdownTimeout

\* ------------------------------------------------------ specification
Next ==
  \/ CtxCancel
  \/ WatcherEmit
  \/ \E c \in Cmds : ReaderCommand(c)
  \/ ReaderHelp
  \/ ReaderGateWait
  \/ ReaderGatePoll
  \/ \E i \in Runs : RunnerStep(i)
  \/ DispatcherStep

Spec == Init /\ [][Next]_vars

\* The dispatcher goroutine and the Runner goroutines are scheduled, the
\* external process terminates and closes its pipes, and the shutdown timer
\* fires. Nothing obliges the producers to emit or the context to be cancelled.
FairSpec ==
  /\ Spec
  /\ WF_vars(DispatcherStep)
  /\ WF_vars(ShutdownTimeout)
  /\ \A i \in Runs : WF_vars(RunnerStep(i))

\* ------------------------------------------- the Runner under a caller
\* The Runner generations: "context" reads the config from the context and is
\* not handed the gate channel (src/unnamed/part_010, part_008); "gated"
\* takes the config and the gate channel as parameters (src/unnamed/part_011).
RunnerImpls == {"context", "gated"}

\* no dispatcher runs: the caller below invokes the Runner itself
DispatcherOff ==
  /\ impl = "none"
  /\ dpc = "off"
  /\ events = 0
  /\ fileChangeChan = 0
  /\ commandChan = <<>>
  /\ helpChan = 0
  /\ testRunning = FALSE
  /\ config = NewTestConfig
  /\ handled = 0
  /\ completed = 0
  /\ gateLog = <<>>
  /\ exitKind = "none"
  /\ shutdownPrinted = FALSE
  /\ rdpc = "scan"
  /\ rdReady = TRUE

RunnerInit ==
  /\ DispatcherOff
  /\ ctxDone = FALSE
  /\ testCompleteChan = <<>>
  /\ readyChan = <<>>
  /\ spawned = 0
  /\ received = {}
  /\ runner = [i \in Runs |-> NoRunner]
  /\ rimpl \in RunnerImpls
  /\ hasConfig \in (IF rimpl = "gated" THEN {TRUE} ELSE BOOLEAN)
  /\ runnerGate = 0
  /\ ReadStdinOff
  /\ WalkOff
  /\ WatchFilesOff
  /\ RestOff

\* the caller invokes the Runner once more, after the previous invocation
\* returned
CallRunTests ==
  /\ spawned < MaxEvents
  /\ \A i \in Runs : runner[i].pc \in {"none", "returned"}
  /\ Spawn
  /\ UNCHANGED <<impl, others, ctxDone, events, chans, readyChan, dpc,
                 testRunning, config, handled, completed, received, gateLog,
                 exitKind, shutdownPrinted, reader>>

\* the caller receives a completion message: case <-testCompleteChan
CompleteRecv ==
  /\ testCompleteChan # <<>>
  /\ testCompleteChan' = Tail(testCompleteChan)
  /\ received' = received \cup {Head(testCompleteChan)}
  /\ UNCHANGED <<impl, others, ctxDone, events, fileChangeChan, commandChan,
                 helpChan, readyChan, dpc, testRunning, config, spawned,
                 handled, completed, gateLog, exitKind, shutdownPrinted,
                 runner, reader>>

RunnerNext ==
  \/ CtxCancel
  \/ CallRunTests
  \/ CompleteRecv
  \/ \E i \in Runs : RunnerNoConfig(i)
  \/ \E i \in Runs : RunnerStep(i)
  \/ \E i \in Runs : RunnerGateSend(i)

RunnerSpec == RunnerInit /\ [][RunnerNext]_vars

\* ------------------------------------------------- ReadStdin, ungated
\* A line is a sequence of one-character strings; a command name is the
\* sequence of the characters of its token.
HelpCmd == <<"h">>
\* the name the README gives the help command
HelpWord == <<"h", "e", "l", "p">>

\* the lines the input stream is made of
StdinLines ==
  { <<>>, <<" ">>, <<"h">>, <<" ", "h", " ">>, <<"h", " ", "x">>, HelpWord,
    <<"f">>, <<"h", "x">>, <<"r", " ", " ", "x", " ">> }

IsSpace(c) == c = " "

RECURSIVE TrimLeft(_)
TrimLeft(s) == IF s # <<>> /\ IsSpace(Head(s)) THEN TrimLeft(Tail(s)) ELSE s

RECURSIVE TrimRight(_)
TrimRight(s) ==
  IF s # <<>> /\ IsSpace(s[Len(s)])
  THEN TrimRight(SubSeq(s, 1, Len(s) - 1))
  ELSE s

\* strings.TrimSpace
TrimSpace(s) == TrimRight(TrimLeft(s))

\* the longest prefix of s without a space
RECURSIVE TakeWord(_)
TakeWord(s) ==
  IF s = <<>> \/ IsSpace(Head(s)) THEN <<>> ELSE <<Head(s)>> \o TakeWord(Tail(s))

\* strings.Fields: the maximal runs of non-space characters, in order
RECURSIVE Fields(_)
Fields(s) ==
  LET t == TrimLeft(s)
  IN IF t = <<>>
     THEN <<>>
     ELSE LET w == TakeWord(t)
          IN <<w>> \o Fields(SubSeq(t, Len(w) + 1, Len(t)))

\* mutant of parseCommand: the arguments are sliced from the first token
parseCommandFromFirst(input) ==
  LET inputs == Fields(TrimSpace(input))
  IN IF Len(inputs) = 0
     THEN [Command |-> <<>>, Args |-> <<>>]
     ELSE [Command |-> inputs[1], Args |-> inputs]

\* parseCommand: the first token is the command, the others its arguments
parseCommand(input) ==
  LET inputs == Fields(TrimSpace(input))
  IN IF Len(inputs) = 0
     THEN [Command |-> <<>>, Args |-> <<>>]
     ELSE [Command |-> inputs[1], Args |-> Tail(inputs)]

\* no Runner was invoked
RunnerOff ==
  /\ testCompleteChan = <<>>
  /\ readyChan = <<>>
  /\ spawned = 0
  /\ received = {}
  /\ runner = [i \in Runs |-> NoRunner]

\* what ReadStdin has behind it when the model takes over: nothing, or
\* ChanCap lines "f" (lines "h") whose messages nobody has received, so that
\* the command (help) channel is full
Backlogs == {"none", "commands", "helps"}

BacklogLines(b) ==
  IF b = "commands" THEN [i \in 1..ChanCap |-> <<"f">>]
  ELSE IF b = "helps" THEN [i \in 1..ChanCap |-> HelpCmd]
  ELSE <<>>

ReaderInit ==
  /\ impl = "none"
  /\ dpc = "off"
  /\ events = 0
  /\ fileChangeChan = 0
  /\ testRunning = FALSE
  /\ config = NewTestConfig
  /\ handled = 0
  /\ completed = 0
  /\ gateLog = <<>>
  /\ exitKind = "none"
  /\ shutdownPrinted = FALSE
  /\ rdpc = "scan"
  /\ rdReady = TRUE
  /\ RunnerOff
  /\ RunnerFromContext
  /\ WatchFilesOff
  /\ WalkOff
  /\ RestOff
  /\ ctxDone = FALSE
  /\ stdin \in UNION {[1..n -> StdinLines] : n \in 0..MaxStdin}
  /\ rpc = "scan"
  /\ line = <<>>
  /\ \E b \in Backlogs :
       /\ scanned = BacklogLines(b)
       /\ routed = [i \in 1..Len(BacklogLines(b)) |->
                     [line |-> BacklogLines(b)[i],
                      to |-> IF b = "helps" THEN "help" ELSE "command"]]
       /\ commandChan = IF b = "commands"
                        THEN [i \in 1..ChanCap |-> parseCommand(<<"f">>)]
                        ELSE <<>>
       /\ helpChan = IF b = "helps" THEN ChanCap ELSE 0

ReaderFrame == UNCHANGED <<impl, rnvars, wvars, wkvars, rest, ctxDone, events, fileChangeChan,
                           testCompleteChan, readyChan, dpc, dstate, gateLog,
                           runner, reader>>

\* scanner.Scan() returns true: line := scanner.Text()
ScanLine ==
  /\ rpc = "scan"
  /\ stdin # <<>>
  /\ line' = Head(stdin)
  /\ stdin' = Tail(stdin)
  /\ scanned' = Append(scanned, Head(stdin))
  /\ rpc' = "check"
  /\ UNCHANGED <<routed, commandChan, helpChan>>
  /\ ReaderFrame

\* scanner.Scan() returns false at the end of the stream: the loop ends
ScanEOF ==
  /\ rpc = "scan"
  /\ stdin = <<>>
  /\ rpc' = "done"
  /\ UNCHANGED <<stdin, line, routed, scanned, commandChan, helpChan>>
  /\ ReaderFrame

\* select { case <-ctx.Done(): return; default: }; parseCommand(line);
\* if cmd == "" { continue }
CheckLine ==
  /\ rpc = "check"
  /\ rpc' = IF ctxDone THEN "done"
            ELSE IF parseCommand(line).Command = <<>> THEN "scan" ELSE "send"
  /\ UNCHANGED <<stdin, line, routed, scanned, commandChan, helpChan>>
  /\ ReaderFrame

\* if cmd == HelpCmd: case helpChan <- HelpMessage{}
SendHelp ==
  /\ rpc = "send"
  /\ parseCommand(line).Command = HelpCmd
  /\ helpChan < ChanCap
  /\ helpChan' = helpChan + 1
  /\ routed' = Append(routed, [line |-> line, to |-> "help"])
  /\ rpc' = "scan"
  /\ UNCHANGED <<stdin, line, scanned, commandChan>>
  /\ ReaderFrame

\* else: case cmdChan <- CommandMessage{Command: cmd, Args: args}
SendCommand ==
  /\ rpc = "send"
  /\ parseCommand(line).Command # HelpCmd
  /\ Len(commandChan) < ChanCap
  /\ commandChan' = Append(commandChan, parseCommand(line))
  /\ routed' = Append(routed, [line |-> line, to |-> "command"])
  /\ rpc' = "scan"
  /\ UNCHANGED <<stdin, line, scanned, helpChan>>
  /\ ReaderFrame

\* mutant of SendCancelled: the send has no cancellation case
SendCancelledNever == FALSE

\* in the select of a send, case <-ctx.Done() is ready
SendCancelled == ctxDone

\* either send: case <-ctx.Done(): return
SendAbandoned ==
  /\ rpc = "send"
  /\ SendCancelled
  /\ rpc' = "done"
  /\ UNCHANGED <<stdin, line, routed, scanned, commandChan, helpChan>>
  /\ ReaderFrame

ReaderNext ==
  \/ CtxCancel
  \/ ScanLine
  \/ ScanEOF
  \/ CheckLine
  \/ SendHelp
  \/ SendCommand
  \/ SendAbandoned

ReaderSpec == ReaderInit /\ [][ReaderNext]_vars

\* ------------------------------------------------------- the Watcher
\* The Watcher generations of src/file_watcher.go:
\*   "deferred"   lines 37-108: waits for the start signal, filters the events
\*                in its loop, buffered debounce channel
\*   "immediate"  lines 153-213: no start signal, hands every event to the
\*                debounce loop over an unbuffered channel, filters in the
\*                callback
\* Time is counted in ticks. The goroutines run to their next blocking point
\* before the clock advances or the next filesystem event is delivered.
WatcherImpls == {"deferred", "immediate"}

\* an fsnotify event: the extension of its file is .go, its kind is tracked
FsEvents == [go : BOOLEAN, tracked : BOOLEAN]

\* isTrackedChangeEvent(event) && filepath.Ext(event.Name) == ".go"
Qualifies(e) == e.tracked /\ e.go

WatcherInit ==
  /\ DispatcherOff
  /\ RunnerOff
  /\ RunnerFromContext
  /\ ReadStdinOff
  /\ WalkOff
  /\ RestOff
  /\ ctxDone = FALSE
  /\ wimpl \in WatcherImpls
  /\ wpc = IF wimpl = "deferred" THEN "blocked" ELSE "setup"
  /\ startClosed = FALSE
  /\ startReceived = FALSE
  /\ watching = FALSE
  /\ now = 0
  /\ dbpc = "none"
  /\ timer = -1
  /\ debounceChan = <<>>
  /\ event = NoEvent
  /\ op = FALSE
  /\ pending = NoEvent
  /\ qualTimes = <<>>
  /\ otherTimes = <<>>
  /\ signalTimes = <<>>

\* what the watcher's actions leave alone, the context and the file-change
\* channel apart
WatcherFrame == UNCHANGED <<impl, rnvars, rsvars, wkvars, rest, events, commandChan,
                            helpChan, testCompleteChan, readyChan, dpc,
                            dstate, gateLog, runner, reader, wimpl>>

\* main: close(startWatching)
StartClose ==
  /\ wimpl = "deferred"
  /\ ~startClosed
  /\ startClosed' = TRUE
  /\ UNCHANGED <<ctxDone, fileChangeChan, wpc, startReceived, watching, now,
                 dbpc, timer, debounceChan, event, op, pending, qualTimes,
                 otherTimes, signalTimes>>
  /\ WatcherFrame

\* mutant of StartObserved: the start signal is not waited for
StartIgnored == TRUE

\* case <-startWatchingChan is ready once the channel is closed
StartObserved == startClosed

\* select { case <-startWatchingChan: proceed
WatchStartRecv ==
  /\ wpc = "blocked"
  /\ StartObserved
  /\ wpc' = "setup"
  /\ startReceived' = TRUE
  /\ UNCHANGED <<ctxDone, fileChangeChan, startClosed, watching, now, dbpc,
                 timer, debounceChan, event, op, pending, qualTimes,
                 otherTimes, signalTimes>>
  /\ WatcherFrame

\* case <-ctx.Done(): return }
WatchCancelBlocked ==
  /\ wpc = "blocked"
  /\ ctxDone
  /\ wpc' = "returned"
  /\ UNCHANGED <<ctxDone, fileChangeChan, startClosed, startReceived,
                 watching, now, dbpc, timer, debounceChan, event, op, pending,
                 qualTimes, otherTimes, signalTimes>>
  /\ WatcherFrame

\* mutant of DebounceDeadline: an armed timer keeps its deadline
DebounceDeadlineKept == IF timer = -1 THEN now + Quiet ELSE timer

\* time.NewTimer(interval), timer.Reset(interval): the new deadline
DebounceDeadline == now + Quiet

\* fsnotify.NewWatcher(); addWatchRecursive(watcher, dir);
\* go debounceLoop(...), which starts with timer := time.NewTimer(interval)
WatchSetup ==
  /\ wpc = "setup"
  /\ watching' = TRUE
  /\ dbpc' = "initial"
  /\ timer' = now + Quiet
  /\ wpc' = "loop"
  /\ UNCHANGED <<ctxDone, fileChangeChan, startClosed, startReceived, now,
                 debounceChan, event, op, pending, qualTimes, otherTimes,
                 signalTimes>>
  /\ WatcherFrame

\* mutant of TimerExpired: the timer fires one tick early
TimerExpiredEarly == timer # -1 /\ now + 1 >= timer

\* a value is ready on timer.C
TimerExpired == timer # -1 /\ now >= timer

\* debounceLoop can take a step
DebounceReady ==
  \/ dbpc = "initial" /\ TimerExpired
  \/ dbpc = "select" /\ TimerExpired
  \/ dbpc = "select" /\ debounceChan # <<>>
  \/ dbpc = "select" /\ wpc = "send"

\* the events the loop of watchFiles hands to the debounce loop
PassedOn(e) == IF wimpl = "deferred" THEN Qualifies(e) ELSE TRUE

\* case event, ok := <-watcher.Events: the event e is delivered. The
\* "deferred" Watcher sends it on the buffered debounce channel if it
\* qualifies; the "immediate" Watcher blocks sending it on the unbuffered one
FsEvent(e) ==
  /\ wpc = "loop"
  /\ watching
  /\ ~DebounceReady
  /\ Len(qualTimes) + Len(otherTimes) < MaxFsEvents
  /\ IF Qualifies(e)
     THEN qualTimes' = Append(qualTimes, now) /\ UNCHANGED otherTimes
     ELSE otherTimes' = Append(otherTimes, now) /\ UNCHANGED qualTimes
  /\ IF wimpl = "deferred"
     THEN /\ Len(debounceChan) < DebounceCap
          /\ debounceChan' =
               IF PassedOn(e) THEN Append(debounceChan, e) ELSE debounceChan
          /\ UNCHANGED <<wpc, pending>>
     ELSE /\ pending' = e
          /\ wpc' = "send"
          /\ UNCHANGED debounceChan
  /\ UNCHANGED <<ctxDone, fileChangeChan, startClosed, startReceived,
                 watching, now, dbpc, timer, event, op, signalTimes>>
  /\ WatcherFrame

\* case <-ctx.Done(): return; the deferred watcher.Close() releases the watches
WatchReturn ==
  /\ wpc = "loop"
  /\ ctxDone
  /\ wpc' = "returned"
  /\ watching' = FALSE
  /\ UNCHANGED <<ctxDone, fileChangeChan, startClosed, startReceived, now,
                 dbpc, timer, debounceChan, event, op, pending, qualTimes,
                 otherTimes, signalTimes>>
  /\ WatcherFrame

\* debounceLoop: <-timer.C before the loop
InitialTimer ==
  /\ dbpc = "initial"
  /\ TimerExpired
  /\ dbpc' = "select"
  /\ timer' = -1
  /\ UNCHANGED <<ctxDone, fileChangeChan, wpc, startClosed, startReceived,
                 watching, now, debounceChan, event, op, pending, qualTimes,
                 otherTimes, signalTimes>>
  /\ WatcherFrame

\* case event = <-input: timer.Reset(interval) (and op = event.Op)
DebounceRecv ==
  /\ dbpc = "select"
  /\ IF wimpl = "deferred"
     THEN /\ debounceChan # <<>>
          /\ event' = Head(debounceChan)
          /\ debounceChan' = Tail(debounceChan)
          /\ UNCHANGED <<wpc, op>>
     ELSE /\ wpc = "send"
          /\ event' = pending
          /\ op' = TRUE
          /\ wpc' = "loop"
          /\ UNCHANGED debounceChan
  /\ timer' = DebounceDeadline
  /\ UNCHANGED <<ctxDone, fileChangeChan, startClosed, startReceived,
                 watching, now, dbpc, pending, qualTimes, otherTimes,
                 signalTimes>>
  /\ WatcherFrame

\* mutant of CallbackSends: the callback sends whatever the last event was
CallbackSendsUnfiltered == TRUE

\* the callback sends on the file-change channel: in the "deferred" Watcher
\* whenever the timer fires, in the "immediate" Watcher if op is not zero and
\* the last event qualifies
CallbackSends ==
  IF wimpl = "deferred" THEN TRUE ELSE op /\ Qualifies(event)

\* case <-timer.C: callback(event)
TimerFire ==
  /\ dbpc = "select"
  /\ TimerExpired
  /\ timer' = -1
  /\ IF CallbackSends
     THEN /\ fileChangeChan < ChanCap
          /\ fileChangeChan' = fileChangeChan + 1
          /\ signalTimes' = Append(signalTimes, now)
     ELSE UNCHANGED <<fileChangeChan, signalTimes>>
  /\ op' = FALSE
  /\ UNCHANGED <<ctxDone, wpc, startClosed, startReceived, watching, now,
                 dbpc, debounceChan, event, pending, qualTimes, otherTimes>>
  /\ WatcherFrame

\* the clock advances when no goroutine of the Watcher can take a step
Tick ==
  /\ now < MaxTime
  /\ ~DebounceReady
  /\ now' = now + 1
  /\ UNCHANGED <<ctxDone, fileChangeChan, wpc, startClosed, startReceived,
                 watching, dbpc, timer, debounceChan, event, op, pending,
                 qualTimes, otherTimes, signalTimes>>
  /\ WatcherFrame

WatcherStep ==
  \/ WatchStartRecv
  \/ WatchCancelBlocked
  \/ WatchSetup
  \/ WatchReturn

DebounceStep ==
  \/ InitialTimer
  \/ DebounceRecv
  \/ TimerFire

WatcherNext ==
  \/ CtxCancel
  \/ StartClose
  \/ \E e \in FsEvents : FsEvent(e)
  \/ Tick
  \/ WatcherStep
  \/ DebounceStep

WatcherSpec == WatcherInit /\ [][WatcherNext]_vars

\* watchFiles and debounceLoop are scheduled; nothing obliges the clock, the
\* filesystem, main or the signal handler to act
WatcherFairSpec ==
  /\ WatcherSpec
  /\ WF_vars(WatcherStep)
  /\ WF_vars(DebounceStep)

\* ------------------------------------------------- addWatchRecursive
\* The entries of the tree are numbered in the order WalkDir meets them among
\* siblings; entry 1 is the root. An entry has a parent (a directory with a
\* smaller number), is a directory or not, and has a name that begins with
\* '.' or not.
Nodes == 1..MaxNodes

Trees ==
  { t \in [parent : [Nodes \ {1} -> Nodes], hidden : [Nodes -> BOOLEAN],
            isDir : [Nodes -> BOOLEAN]] :
      /\ t.isDir[1]
      /\ \A n \in Nodes \ {1} : t.parent[n] < n /\ t.isDir[t.parent[n]] }

\* the elements of a set of entries, in increasing order
RECURSIVE InOrder(_)
InOrder(S) ==
  IF S = {}
  THEN <<>>
  ELSE LET m == CHOOSE x \in S : \A y \in S : x <= y
       IN <<m>> \o InOrder(S \ {m})

\* the entries of the directory n, in the order WalkDir visits them
Children(n) == InOrder({c \in Nodes \ {1} : tree.parent[c] = n})

\* mutant of IsHidden: no directory is pruned
HiddenNever(n) == FALSE

\* strings.HasPrefix(filepath.Base(path), ".")
IsHidden(n) == tree.hidden[n]

WalkInit ==
  /\ DispatcherOff
  /\ RunnerOff
  /\ RunnerFromContext
  /\ ReadStdinOff
  /\ WatchFilesOff
  /\ RestOff
  /\ ctxDone = FALSE
  /\ tree \in Trees
  /\ walkpc = "walking"
  /\ walkTodo = <<1>>
  /\ registered = {}
  /\ delivered = {}

WalkFrame == UNCHANGED <<impl, rnvars, rsvars, wvars, rest, ctxDone, events, chans,
                         readyChan, dpc, dstate, gateLog, runner, reader,
                         tree>>

\* the callback on the next entry: a directory whose name begins with '.'
\* returns filepath.SkipDir, so WalkDir does not read it; any other directory
\* is added to the watcher and WalkDir goes on with its entries; a file
\* returns nil
WalkVisit ==
  /\ walkpc = "walking"
  /\ walkTodo # <<>>
  /\ LET n == Head(walkTodo)
     IN IF tree.isDir[n]
        THEN IF IsHidden(n)
             THEN /\ walkTodo' = Tail(walkTodo)
                  /\ UNCHANGED registered
             ELSE /\ registered' = registered \cup {n}
                  /\ walkTodo' = Children(n) \o Tail(walkTodo)
        ELSE /\ walkTodo' = Tail(walkTodo)
             /\ UNCHANGED registered
  /\ UNCHANGED <<walkpc, delivered>>
  /\ WalkFrame

\* the callback is handed an error (the entry cannot be read): return err,
\* which ends the walk
WalkEntryError ==
  /\ walkpc = "walking"
  /\ walkTodo # <<>>
  /\ walkpc' = "failed"
  /\ UNCHANGED <<walkTodo, registered, delivered>>
  /\ WalkFrame

\* watcher.Add(path) fails on a directory that is not hidden: return err,
\* which ends the walk
WalkAddError ==
  /\ walkpc = "walking"
  /\ walkTodo # <<>>
  /\ tree.isDir[Head(walkTodo)]
  /\ ~IsHidden(Head(walkTodo))
  /\ walkpc' = "failed"
  /\ UNCHANGED <<walkTodo, registered, delivered>>
  /\ WalkFrame

\* WalkDir has visited everything: addWatchRecursive returns nil
WalkEnd ==
  /\ walkpc = "walking"
  /\ walkTodo = <<>>
  /\ walkpc' = "done"
  /\ UNCHANGED <<walkTodo, registered, delivered>>
  /\ WalkFrame

\* a file changes: fsnotify reports the change on watcher.Events if the
\* directory that holds the file was added to the watcher
FileChanged(n) ==
  /\ walkpc \in {"done", "failed"}
  /\ n # 1
  /\ ~tree.isDir[n]
  /\ tree.parent[n] \in registered
  /\ n \notin delivered
  /\ delivered' = delivered \cup {n}
  /\ UNCHANGED <<walkpc, walkTodo, registered>>
  /\ WalkFrame

WalkNext ==
  \/ WalkVisit
  \/ WalkEntryError
  \/ WalkAddError
  \/ WalkEnd
  \/ \E n \in Nodes : FileChanged(n)

WalkSpec == WalkInit /\ [][WalkNext]_vars

\* ------------------------------------------------- main's startup sequence
\* main of src/main.go:33-82 (the same sequence is at src/main.go:92-143,
\* src/unnamed/part_002:216-273 and src/unnamed/part_015:31-80): the Watcher
\* goroutine is started and waits for the start signal, RunTests is called
\* synchronously, main waits for its completion message, closes the start
\* channel and calls the dispatcher, whose first statement prints the prompt.
\* The Reader goroutine main starts as well touches none of these variables.
StartupInit ==
  /\ impl = "ack"
  /\ ctxDone = FALSE
  /\ events = 0
  /\ fileChangeChan = 0
  /\ commandChan = <<>>
  /\ helpChan = 0
  /\ testCompleteChan = <<>>
  /\ readyChan = <<>>
  /\ dpc = "off"
  /\ testRunning = FALSE
  /\ config = NewTestConfig
  /\ spawned = 0
  /\ handled = 0
  /\ completed = 0
  /\ received = {}
  /\ gateLog = <<>>
  /\ exitKind = "none"
  /\ shutdownPrinted = FALSE
  /\ runner = [i \in Runs |-> NoRunner]
  /\ rdpc = "scan"
  /\ rdReady = TRUE
  /\ RunnerFromContext
  /\ ReadStdinOff
  /\ WalkOff
  /\ wimpl = "deferred"
  /\ wpc = "blocked"
  /\ startClosed = FALSE
  /\ startReceived = FALSE
  /\ watching = FALSE
  /\ now = 0
  /\ dbpc = "none"
  /\ timer = -1
  /\ debounceChan = <<>>
  /\ event = NoEvent
  /\ op = FALSE
  /\ pending = NoEvent
  /\ qualTimes = <<>>
  /\ otherTimes = <<>>
  /\ signalTimes = <<>>
  /\ mpc = "run"
  /\ ConfigOff
  /\ SentOff
  /\ AccessOff

\* what main's steps leave alone
MainFrame == UNCHANGED <<impl, rnvars, rsvars, wkvars, ctxDone, events,
                         fileChangeChan, commandChan, helpChan, readyChan,
                         testRunning, config, handled, completed, gateLog,
                         exitKind, shutdownPrinted, reader, wimpl, wpc,
                         startReceived, watching, now, dbpc, timer,
                         debounceChan, event, op, pending, qualTimes,
                         otherTimes, signalTimes, cfvars, qvars, acvars>>

\* fmt.Println("Running tests..."); internal.RunTests(ctx, testCompleteChan,
\* nil, nil): a call, not a go statement
MainRunTests ==
  /\ mpc = "run"
  /\ Spawn
  /\ mpc' = "running"
  /\ UNCHANGED <<testCompleteChan, received, dpc, startClosed>>
  /\ MainFrame

\* RunTests has returned to main
RunTestsReturned == spawned > 0 /\ runner[spawned].pc = "returned"

\* select { case <-testCompleteChan: close(startWatching) }, then the call
\* of the dispatcher
MainRecvComplete ==
  /\ mpc = "running"
  /\ RunTestsReturned
  /\ testCompleteChan # <<>>
  /\ testCompleteChan' = Tail(testCompleteChan)
  /\ received' = received \cup {Head(testCompleteChan)}
  /\ startClosed' = TRUE
  /\ dpc' = "start"
  /\ mpc' = "dispatcher"
  /\ UNCHANGED <<spawned, runner>>
  /\ MainFrame

\* select { case <-ctx.Done(): return }
MainCancelled ==
  /\ mpc = "running"
  /\ RunTestsReturned
  /\ ctxDone
  /\ mpc' = "returned"
  /\ UNCHANGED <<testCompleteChan, received, dpc, startClosed, spawned,
                 runner>>
  /\ MainFrame

\* watcher, err := fsnotify.NewWatcher() fails: if err != nil { log.Print(err) }
\* and watchFiles goes on
WatchNewFail ==
  /\ wpc = "setup"
  /\ wpc' = "failed"
  /\ UNCHANGED <<ctxDone, fileChangeChan, startClosed, startReceived,
                 watching, now, dbpc, timer, debounceChan, event, op, pending,
                 qualTimes, otherTimes, signalTimes>>
  /\ WatcherFrame

\* addWatchRecursive(watcher, dir) with the nil watcher: watcher.Add (or, for
\* a hidden root, the read of watcher.Events) dereferences nil, and the panic
\* ends the process
WatchNilPanic ==
  /\ wpc = "failed"
  /\ wpc' = "panic"
  /\ UNCHANGED <<ctxDone, fileChangeChan, startClosed, startReceived,
                 watching, now, dbpc, timer, debounceChan, event, op, pending,
                 qualTimes, otherTimes, signalTimes>>
  /\ WatcherFrame

\* the process runs: main has not returned and no goroutine has panicked
ProcessAlive == mpc # "returned" /\ wpc # "panic"

\* every step is a step of the running process
StartupNext ==
  \/ ProcessAlive /\ CtxCancel
  \/ ProcessAlive /\ MainRunTests
  \/ ProcessAlive /\ MainRecvComplete
  \/ ProcessAlive /\ MainCancelled
  \/ ProcessAlive /\ RunnerStep(1)
  \/ ProcessAlive /\ DispatcherStart
  \/ ProcessAlive /\ WatchNewFail
  \/ ProcessAlive /\ WatchNilPanic
  \/ ProcessAlive /\ \E e \in FsEvents : FsEvent(e)
  \/ ProcessAlive /\ Tick
  \/ ProcessAlive /\ WatchStartRecv
  \/ ProcessAlive /\ WatchCancelBlocked
  \/ ProcessAlive /\ WatchSetup
  \/ ProcessAlive /\ WatchReturn
  \/ ProcessAlive /\ InitialTimer
  \/ ProcessAlive /\ DebounceRecv
  \/ ProcessAlive /\ TimerFire

StartupSpec == StartupInit /\ [][StartupNext]_vars

\* --------------------------------------- the configuration record in use
\* The record of src/internal/test_config.go with the handlers of
\* src/internal/command_handlers.go, from the flags of the command line to the
\* command the Runner builds and executes. A string is a sequence of pieces
\* without white space and of spaces " "; a token is such a sequence without
\* a space.
MaxCount == 2

DefaultPath == <<"./...">>
DefaultBase == << <<"go">>, <<"test">> >>

\* NewTestConfig(), with every field of the struct the claims read
NewTestConfigRecord ==
  [TestPath |-> DefaultPath, Verbose |-> FALSE, RunPattern |-> <<>>,
   SkipPattern |-> <<>>, CommandBase |-> DefaultBase, Race |-> FALSE,
   FailFast |-> FALSE, Count |-> 0, ClearScreen |-> FALSE, Cover |-> FALSE]

\* strings.Join(ts, " ")
RECURSIVE JoinSpace(_)
JoinSpace(ts) ==
  IF ts = <<>> THEN <<>>
  ELSE IF Len(ts) = 1 THEN ts[1]
  ELSE ts[1] \o <<" ">> \o JoinSpace(Tail(ts))

\* strconv.Itoa
Itoa(n) == <<ToString(n)>>

\* the integers the model writes as decimal numerals
Numerals == -1..(MaxCount + 1)

\* strconv.Atoi: the integer and whether the string is a numeral
Atoi(str) ==
  IF \E n \in Numerals : Itoa(n) = str
  THEN [n |-> CHOOSE n \in Numerals : Itoa(n) = str, err |-> FALSE]
  ELSE [n |-> 0, err |-> TRUE]

\* mutant of BuildCommand: the count is written before the boolean flags
BuildCommandCountFirst(c) ==
  JoinSpace(c.CommandBase) \o <<" ">> \o c.TestPath
  \o (IF c.Count > 0 THEN <<" ", "-count=">> \o Itoa(c.Count) ELSE <<>>)
  \o (IF c.Verbose THEN <<" ", "-v">> ELSE <<>>)
  \o (IF c.Race THEN <<" ", "-race">> ELSE <<>>)
  \o (IF c.FailFast THEN <<" ", "-failfast">> ELSE <<>>)
  \o (IF c.Cover THEN <<" ", "-cover">> ELSE <<>>)
  \o (IF c.RunPattern # <<>> THEN <<" ", "-run=">> \o c.RunPattern ELSE <<>>)
  \o (IF c.SkipPattern # <<>> THEN <<" ", "-skip=">> \o c.SkipPattern ELSE <<>>)

\* (tc *TestConfig) BuildCommand: the string the builder holds at the end
BuildCommand(c) ==
  JoinSpace(c.CommandBase) \o <<" ">> \o c.TestPath
  \o (IF c.Verbose THEN <<" ", "-v">> ELSE <<>>)
  \o (IF c.Race THEN <<" ", "-race">> ELSE <<>>)
  \o (IF c.FailFast THEN <<" ", "-failfast">> ELSE <<>>)
  \o (IF c.Cover THEN <<" ", "-cover">> ELSE <<>>)
  \o (IF c.Count > 0 THEN <<" ", "-count=">> \o Itoa(c.Count) ELSE <<>>)
  \o (IF c.RunPattern # <<>> THEN <<" ", "-run=">> \o c.RunPattern ELSE <<>>)
  \o (IF c.SkipPattern # <<>> THEN <<" ", "-skip=">> \o c.SkipPattern ELSE <<>>)

\* the names of the commands of the registry
SetPathCmd == <<"p">>
SetPatternCmd == <<"r">>
SetSkipCmd == <<"s">>
ClearCmd == <<"clear">>
ClearScreenCmd == <<"cls">>
SetCommandBaseCmd == <<"cmd">>
RaceCmd == <<"race">>
FailFastCmd == <<"ff">>

\* os.Stat(path): what the file system holds under the path
PathKind(path) ==
  IF path = <<"pkg">> THEN "dir"
  ELSE IF path = <<"main.go">> THEN "file"
  ELSE "missing"

\* what a handler gives back: the record as it leaves it, and its error
Handled(c, e) == [cfg |-> c, err |-> e]

handleVerbose(c, args) == Handled([c EXCEPT !.Verbose = ~@], FALSE)

handleRace(c, args) == Handled([c EXCEPT !.Race = ~@], FALSE)

handleFailFast(c, args) == Handled([c EXCEPT !.FailFast = ~@], FALSE)

\* handleCount: no argument clears the count; an argument that is no integer
\* or is negative prints an error and returns nil
handleCount(c, args) ==
  IF Len(args) = 0 THEN Handled([c EXCEPT !.Count = 0], FALSE)
  ELSE IF Atoi(args[1]).err THEN Handled(c, FALSE)
  ELSE IF Atoi(args[1]).n < 0 THEN Handled(c, FALSE)
  ELSE Handled([c EXCEPT !.Count = Atoi(args[1]).n], FALSE)

\* (tc *TestConfig) Clear: ClearScreen is not among the fields it resets
handleClear(c, args) ==
  Handled([NewTestConfigRecord EXCEPT !.ClearScreen = c.ClearScreen], FALSE)

handleRunPattern(c, args) ==
  Handled([c EXCEPT !.RunPattern = IF Len(args) = 0 THEN <<>> ELSE args[1]],
          FALSE)

handleSkipPattern(c, args) ==
  Handled([c EXCEPT !.SkipPattern = IF Len(args) = 0 THEN <<>> ELSE args[1]],
          FALSE)

\* mutant of handleTestPath: the path is stored before it is checked
handleTestPathStoresFirst(c, args) ==
  IF Len(args) = 0 THEN Handled([c EXCEPT !.TestPath = DefaultPath], FALSE)
  ELSE Handled([c EXCEPT !.TestPath = args[1]], PathKind(args[1]) # "dir")

\* handleTestPath: os.Stat fails, or the path is no directory: an error, and
\* SetTestPath is not reached
handleTestPath(c, args) ==
  IF Len(args) = 0 THEN Handled([c EXCEPT !.TestPath = DefaultPath], FALSE)
  ELSE IF PathKind(args[1]) # "dir" THEN Handled(c, TRUE)
  ELSE Handled([c EXCEPT !.TestPath = args[1]], FALSE)

handleCls(c, args) == Handled(c, FALSE)

handleForceRun(c, args) == Handled(c, FALSE)

handleCommandBase(c, args) ==
  Handled([c EXCEPT !.CommandBase = IF Len(args) = 0 THEN DefaultBase ELSE args],
          FALSE)

\* handleCommand: the handler the registry holds for the command, or the error
\* "unknown command"
handleCommand(command, c, args) ==
  IF command = <<VerboseCmd>> THEN handleVerbose(c, args)
  ELSE IF command = HelpCmd THEN Handled(c, FALSE)
  ELSE IF command = ClearCmd THEN handleClear(c, args)
  ELSE IF command = SetPatternCmd THEN handleRunPattern(c, args)
  ELSE IF command = SetSkipCmd THEN handleSkipPattern(c, args)
  ELSE IF command = SetPathCmd THEN handleTestPath(c, args)
  ELSE IF command = ClearScreenCmd THEN handleCls(c, args)
  ELSE IF command = <<ForceRunCmd>> THEN handleForceRun(c, args)
  ELSE IF command = SetCommandBaseCmd THEN handleCommandBase(c, args)
  ELSE IF command = RaceCmd THEN handleRace(c, args)
  ELSE IF command = FailFastCmd THEN handleFailFast(c, args)
  ELSE Handled(c, TRUE)

\* the commands initRegistry registers
Registered ==
  { <<VerboseCmd>>, HelpCmd, ClearCmd, SetPatternCmd, SetSkipCmd, SetPathCmd,
    ClearScreenCmd, <<ForceRunCmd>>, SetCommandBaseCmd, RaceCmd, FailFastCmd }

Msg(c, a) == [Command |-> c, Args |-> a]

\* the command messages the Reader hands over
CfgMessages ==
  { Msg(<<VerboseCmd>>, <<>>), Msg(RaceCmd, <<>>), Msg(FailFastCmd, <<>>),
    Msg(SetPatternCmd, << <<"A">> >>), Msg(SetPatternCmd, <<>>),
    Msg(SetSkipCmd, << <<"B">> >>), Msg(SetSkipCmd, <<>>),
    Msg(SetPathCmd, << <<"pkg">> >>), Msg(SetPathCmd, << <<"main.go">> >>),
    Msg(SetPathCmd, << <<"nope">> >>), Msg(SetPathCmd, <<>>),
    Msg(SetCommandBaseCmd, << <<"gotestsum">> >>), Msg(SetCommandBaseCmd, <<>>),
    Msg(ClearCmd, <<>>), Msg(ClearScreenCmd, <<>>), Msg(<<ForceRunCmd>>, <<>>),
    Msg(<<"count">>, << Itoa(MaxCount) >>), Msg(<<"x">>, <<>>) }

\* the arguments handleCount is called with
CountArgs ==
  { <<>>, << Itoa(0) >>, << Itoa(MaxCount) >>, << Itoa(-1) >>, << <<"abc">> >> }

\* a flag of the command line: whether it was given (Changed) and its value
Given(v) == [changed |-> TRUE, value |-> v]

NotGiven(v) == [changed |-> FALSE, value |-> v]

\* the command lines: each flag absent with its default, or given
Flags ==
  [cmd : {NotGiven(<< <<"go">>, <<"test">> >>), Given(<<>>),
          Given(<< <<"gotestsum">> >>)},
   path : {NotGiven(<<"./...">>), Given(<<"pkg">>)},
   verbose : {NotGiven(FALSE), Given(TRUE)},
   run : {NotGiven(<<>>), Given(<<"A">>)},
   skip : {NotGiven(<<>>), Given(<<"B">>)},
   count : {NotGiven(0), Given(-1), Given(MaxCount)},
   cls : {NotGiven(FALSE), Given(TRUE)}]

\* overrideConfig: every flag that was given replaces its field
overrideConfig(c, f) ==
  [c EXCEPT
     !.CommandBase = IF f.cmd.changed THEN f.cmd.value ELSE @,
     !.TestPath = IF f.path.changed THEN f.path.value ELSE @,
     !.Verbose = IF f.verbose.changed THEN f.verbose.value ELSE @,
     !.RunPattern = IF f.run.changed THEN f.run.value ELSE @,
     !.SkipPattern = IF f.skip.changed THEN f.skip.value ELSE @,
     !.Count = IF f.count.changed THEN f.count.value ELSE @,
     !.ClearScreen = IF f.cls.changed THEN f.cls.value ELSE @]

\* LoadOrDefaultConfig: the defaults, or a config file that sets cover
ConfigInit ==
  /\ DispatcherOff
  /\ RunnerOff
  /\ RunnerFromContext
  /\ ReadStdinOff
  /\ WatchFilesOff
  /\ WalkOff
  /\ MainOff
  /\ ctxDone = FALSE
  /\ tc \in {[NewTestConfigRecord EXCEPT !.Cover = b] : b \in BOOLEAN}
  /\ cpc = "flags"
  /\ lastMsg = NoMsg
  /\ herr = FALSE
  /\ ran = NoRun
  /\ SentOff
  /\ AccessOff

ConfigFrame == UNCHANGED <<impl, ctxDone, events, chans, readyChan, dpc,
                           dstate, gateLog, runner, reader, rnvars, rsvars,
                           wvars, wkvars, mnvars, qvars, acvars>>

\* gotestWatch: overrideConfig(config, cmd), then the startup of main
OverrideConfig(f) ==
  /\ cpc = "flags"
  /\ tc' = overrideConfig(tc, f)
  /\ cpc' = "idle"
  /\ UNCHANGED <<lastMsg, herr, ran>>
  /\ ConfigFrame

\* the idle dispatcher's case cmd := <-commandChan: handleCommand, the error
\* is printed; for the force-run command testRunning = true and go runTests,
\* else the prompt
CfgCommand(m) ==
  /\ cpc = "idle"
  /\ tc' = handleCommand(m.Command, tc, m.Args).cfg
  /\ herr' = handleCommand(m.Command, tc, m.Args).err
  /\ lastMsg' = m
  /\ cpc' = IF m.Command = <<ForceRunCmd>> THEN "spawned" ELSE "idle"
  /\ UNCHANGED ran
  /\ ConfigFrame

\* handleCount called with the record, as its tests call it; the call is
\* recorded under the name of the function, which is no command
CallHandleCount(args) ==
  /\ cpc = "idle"
  /\ tc' = handleCount(tc, args).cfg
  /\ herr' = handleCount(tc, args).err
  /\ lastMsg' = Msg(<<"handleCount">>, args)
  /\ UNCHANGED <<cpc, ran>>
  /\ ConfigFrame

\* RunTests: if config.GetClearScreen() the screen is cleared;
\* testCommand := config.BuildCommand(); fields :=
\* strings.Fields(testCommand); displayCommand(fields);
\* exec.CommandContext(ctx, "go", fields[1:]...)
RunTestsBuild ==
  /\ cpc = "spawned"
  /\ LET fields == Fields(BuildCommand(tc))
     IN ran' = [cleared |-> tc.ClearScreen, built |-> BuildCommand(tc),
                displayed |-> fields, prog |-> <<"go">>,
                args |-> Tail(fields)]
  /\ cpc' = "running"
  /\ UNCHANGED <<tc, lastMsg, herr>>
  /\ ConfigFrame

\* the run ends and the dispatcher receives its completion message
RunTestsDone ==
  /\ cpc = "running"
  /\ ran' = NoRun
  /\ cpc' = "idle"
  /\ UNCHANGED <<tc, lastMsg, herr>>
  /\ ConfigFrame

ConfigNext ==
  \/ \E f \in Flags : OverrideConfig(f)
  \/ \E m \in CfgMessages : CfgCommand(m)
  \/ \E a \in CountArgs : CallHandleCount(a)
  \/ RunTestsBuild
  \/ RunTestsDone

ConfigSpec == ConfigInit /\ [][ConfigNext]_vars

\* ------------------------------------ the accesses to the shared record
\* The Runner goroutine reads the record the dispatcher's handlers write.
\* Two generations of the record and of its handlers:
\*   "plain"   src/test_config.go, src/command_handlers.go: a struct without
\*             a lock, fields read and written directly; the dispatchers of
\*             src/dispatcher.go (handlers when idle) and of
\*             src/unnamed/part_001:253-323 (handlers in every state)
\*   "locked"  src/internal/test_config.go: an embedded sync.RWMutex taken by
\*             every getter, setter and by BuildCommand; the dispatcher of
\*             src/unnamed/part_001:134-243 (handlers when idle)
\* An access is two steps: it begins (taking its lock if it has one) and it
\* ends (releasing it).
Access(fs, l) == [fields |-> fs, lock |-> l]

\* the fields (tc *TestConfig) Clear() resets
ClearFields ==
  {"TestPath", "Verbose", "RunPattern", "SkipPattern", "CommandBase", "Race",
   "FailFast", "Count", "Cover"}

\* the fields BuildCommand reads
BuildFields == ClearFields

\* what runTests reads of the record, in order
RunnerReads ==
  IF cgen = "plain"
  THEN << Access({"TestPath", "Verbose", "RunPattern"}, FALSE) >>
  ELSE << Access({"ClearScreen"}, TRUE), Access(BuildFields, TRUE),
          Access({"WorkingDir"}, FALSE), Access({"Color"}, TRUE) >>

\* what the handlers write of the record, one element for each handler
HandlerWrites ==
  IF cgen = "plain"
  THEN { Access({"Verbose"}, FALSE), Access({"RunPattern"}, FALSE),
         Access({"TestPath"}, FALSE),
         Access({"TestPath", "Verbose", "RunPattern"}, FALSE) }
  ELSE { Access({"Verbose"}, TRUE), Access({"Race"}, TRUE),
         Access({"FailFast"}, TRUE), Access({"RunPattern"}, TRUE),
         Access({"SkipPattern"}, TRUE), Access({"TestPath"}, TRUE),
         Access({"CommandBase"}, TRUE), Access(ClearFields, TRUE) }

AccessInit ==
  /\ DispatcherOff
  /\ RunnerOff
  /\ RunnerFromContext
  /\ ReadStdinOff
  /\ WatchFilesOff
  /\ WalkOff
  /\ MainOff
  /\ ConfigOff
  /\ SentOff
  /\ ctxDone = FALSE
  /\ \/ cgen = "plain" /\ hwhen \in {"idle", "always"}
     \/ cgen = "locked" /\ hwhen = "idle"
  /\ racc = NoRead
  /\ hacc = NoWrite
  /\ rlocks = 0
  /\ wlock = FALSE
  /\ aruns = 0

AccessFrame == UNCHANGED <<impl, ctxDone, events, chans, readyChan, dpc,
                           dstate, gateLog, runner, reader, rnvars, rsvars,
                           wvars, wkvars, mnvars, cfvars, qvars, cgen, hwhen>>

\* a run is in flight: from go runTests to its completion message
AccessRunning == racc.idx > 0

\* the dispatcher, between two handlers and idle: testRunning = true;
\* go runTests(...)
AccessSpawn ==
  /\ ~AccessRunning
  /\ ~hacc.in
  /\ aruns < MaxEvents
  /\ aruns' = aruns + 1
  /\ racc' = [idx |-> 1, in |-> FALSE]
  /\ UNCHANGED <<hacc, rlocks, wlock>>
  /\ AccessFrame

\* the Runner begins its next read: tc.RLock() where the access has one
ReadBegin ==
  /\ AccessRunning
  /\ racc.idx <= Len(RunnerReads)
  /\ ~racc.in
  /\ IF RunnerReads[racc.idx].lock
     THEN ~wlock /\ rlocks' = rlocks + 1
     ELSE UNCHANGED rlocks
  /\ racc' = [racc EXCEPT !.in = TRUE]
  /\ UNCHANGED <<hacc, wlock, aruns>>
  /\ AccessFrame

\* the read ends: tc.RUnlock()
ReadEnd ==
  /\ racc.in
  /\ rlocks' = IF RunnerReads[racc.idx].lock THEN rlocks - 1 ELSE rlocks
  /\ racc' = [idx |-> racc.idx + 1, in |-> FALSE]
  /\ UNCHANGED <<hacc, wlock, aruns>>
  /\ AccessFrame

\* the run ends and the dispatcher takes its completion message
AccessComplete ==
  /\ racc.idx = Len(RunnerReads) + 1
  /\ ~hacc.in
  /\ racc' = NoRead
  /\ UNCHANGED <<hacc, rlocks, wlock, aruns>>
  /\ AccessFrame

\* the dispatcher invokes a handler, which begins its write: tc.Lock() where
\* the access has one
WriteBegin(w) ==
  /\ ~hacc.in
  /\ hwhen = "always" \/ ~AccessRunning
  /\ IF w.lock
     THEN ~wlock /\ rlocks = 0 /\ wlock' = TRUE
     ELSE UNCHANGED wlock
  /\ hacc' = [in |-> TRUE, fields |-> w.fields]
  /\ UNCHANGED <<racc, rlocks, aruns>>
  /\ AccessFrame

\* the write ends: tc.Unlock()
WriteEnd ==
  /\ hacc.in
  /\ wlock' = FALSE
  /\ hacc' = NoWrite
  /\ UNCHANGED <<racc, rlocks, aruns>>
  /\ AccessFrame

AccessNext ==
  \/ AccessSpawn
  \/ ReadBegin
  \/ ReadEnd
  \/ AccessComplete
  \/ \E w \in HandlerWrites : WriteBegin(w)
  \/ WriteEnd

AccessSpec == AccessInit /\ [][AccessNext]_vars

\* ------------------------------------------------------------- claims
InFlightCount == Cardinality({i \in Runs : InFlight(runner[i])})

\* the dispatcher is in its loop with a run in flight (not inside a handler)
Running == testRunning /\ dpc \in {"check", "select"}

\* the dispatcher is in its loop with no run in flight
Idle == ~testRunning /\ dpc \in {"check", "select"}

\* C1: in every reachable state at most one Runner is in flight, and then the
\* run state is Running; a Runner is spawned only by a handler entered in
\* Idle, while no Runner is in flight, and the run state is Running once the
\* spawn step is taken.
AtMostOneRun ==
  /\ [](InFlightCount <= 1 /\ (InFlightCount = 1 => testRunning))
  /\ [][spawned' # spawned =>
          /\ InFlightCount = 0
          /\ testRunning'
          /\ (~testRunning \/ dpc = "sendClosed")]_vars

\* C1 witness: a run is in flight, it is the only run spawned, and two more
\* messages have arrived and been consumed meanwhile
AtMostOneRunWitness ==
  /\ InFlightCount = 1
  /\ spawned = 1
  /\ events = MaxEvents
  /\ fileChangeChan = 0 /\ commandChan = <<>> /\ helpChan = 0
  /\ dpc = "select"

\* C2: every Runner invocation that has returned has sent exactly one
\* completion message, whatever its outcome.
RunnerAlwaysCompletes ==
  \A i \in Runs : runner[i].pc = "returned" => runner[i].sent = 1

\* C3: while the dispatcher is Running, every step that does not receive a
\* run-complete message leaves the run state Running, invokes no handler,
\* leaves the configuration unchanged and spawns no Runner.
RunningDrainsSilently ==
  [][(Running /\ received' = received) =>
       /\ testRunning'
       /\ handled' = handled
       /\ config' = config
       /\ spawned' = spawned]_vars

\* C4: when the dispatcher was cancelled while Running, it has neither
\* returned nor printed the shutdown message unless it received the completion
\* message of the run in flight or the shutdown timeout elapsed.
ShutdownWaitsForCompletion ==
  (testRunning /\ (dpc = "done" \/ shutdownPrinted)) =>
     \/ exitKind = "timeout" /\ ~shutdownPrinted
     \/ exitKind = "complete" /\ spawned \in received

\* C4 witness: cancelled while Running, the dispatcher returned after the
\* completion message of the run in flight
ShutdownWaitsWitness ==
  /\ dpc = "done"
  /\ testRunning
  /\ exitKind = "complete"
  /\ shutdownPrinted

\* C5: once the context is cancelled and the dispatcher is Idle, no step
\* spawns a Runner or makes the dispatcher Running or wait for a completion
\* message, whatever is pending on its channels.
IdleCancelNeverSpawns ==
  [][(ctxDone /\ Idle) =>
       /\ spawned' = spawned
       /\ ~testRunning'
       /\ dpc' \notin {"wait", "sendClosed"}]_vars

\* C6: in every dispatcher, the wait for the completion message that follows
\* a cancellation while Running always ends: the dispatcher returns.
ShutdownWaitTerminates == (dpc = "wait") ~> (dpc = "done")

\* C7: a completion message exists (sent, pending or received) only for a run
\* whose two drain tasks have finished and whose process has exited.
CompletionAfterDrainsAndExit ==
  \A i \in Runs :
    (runner[i].sent > 0 \/ i \in received
       \/ \E k \in 1..Len(testCompleteChan) : testCompleteChan[k] = i) =>
      /\ runner[i].outDone /\ runner[i].out = 0
      /\ runner[i].errDone /\ runner[i].err = 0
      /\ runner[i].exited

\* C7 witness: the dispatcher received the completion message of a run whose
\* process was started
CompletionWitness ==
  \E i \in Runs : i \in received /\ runner[i].outcome = "started"

\* C8: every spawned Runner leads to the dispatcher receiving its completion
\* message (and so returning to Idle), unless the context is cancelled.
SpawnedRunCompletes ==
  \A i \in Runs : (runner[i].pc = "init") ~> (i \in received \/ ctxDone)

NumOf(v, s) == Cardinality({k \in 1..Len(s) : s[k] = v})

\* C9 as stated: the gate values sent are one gate-closed per spawned run and
\* one gate-open per run-complete message received, alternating from a
\* gate-closed, and no other value.
GateValuesOnlyForRuns ==
  impl = "gate" =>
    /\ NumOf(FALSE, gateLog) = spawned
    /\ NumOf(TRUE, gateLog) =
         Cardinality(received) - (IF dpc = "sendOpen" THEN 1 ELSE 0)
    /\ \A k \in 1..Len(gateLog) : gateLog[k] = (k % 2 = 0)

\* C9 amended: the gate dispatcher first sends one gate-open at startup;
\* after it, it sends one gate-closed for each spawned run and one gate-open
\* for each run-complete message its main select received, alternately, and
\* no other value (the completion received by the shutdown wait is followed
\* by no gate value); the other dispatchers send nothing.
GateDiscipline ==
  IF impl = "gate" /\ dpc # "start"
  THEN /\ Len(gateLog) >= 1
       /\ \A k \in 1..Len(gateLog) : gateLog[k] = (k % 2 = 1)
       /\ NumOf(FALSE, gateLog) = spawned
       /\ NumOf(TRUE, gateLog) =
            1 + completed - (IF dpc = "sendOpen" THEN 1 ELSE 0)
  ELSE gateLog = <<>>

\* C9 witness: the startup gate-open, then the gate-closed and the gate-open
\* of a whole run
GateDisciplineWitness ==
  /\ impl = "gate"
  /\ Len(gateLog) >= 3
  /\ completed >= 1

\* C10: the dispatcher is never blocked in a gate send (the gate channel
\* full) while the Reader is blocked waiting for input.
GateSendNeverBlocks ==
  ~(dpc \in {"sendClosed", "sendOpen"} /\ GateFull /\ rdpc = "scan")

\* C11: no Runner sends a value on the gate channel: whatever the generation,
\* the gate channel holds no value a Runner put there.
RunnerNeverSendsOnGate == runnerGate = 0

VerboseTriggersRerun ==
  (dpc = "select" /\ ~testRunning /\ config.Verbose /\ spawned = 0)
    ~> (spawned > 0 \/ ctxDone)

\* C14: the step in which the Idle dispatcher receives a help message invokes
\* the help handler once, spawns no Runner, leaves the run state Idle and
\* leaves the configuration record as it was.
IdleHelpOnlyPrints ==
  [][(Idle /\ dpc = "select" /\ helpChan' = helpChan - 1) =>
       /\ handled' = handled + 1
       /\ spawned' = spawned
       /\ ~testRunning'
       /\ dpc' = LoopTop
       /\ config' = config]_vars

\* C14 witness: a help message was handled while Idle after 'v' had enabled
\* Verbose; nothing was spawned and Verbose is still enabled
IdleHelpWitness ==
  /\ impl = "silent"
  /\ events = 2
  /\ commandChan = <<>> /\ helpChan = 0 /\ fileChangeChan = 0
  /\ handled = 2
  /\ config.Verbose
  /\ spawned = 0
  /\ Idle

\* C15: every message ReadStdin sent went to the help channel if the first
\* token of its line is "help" or "h" and to the command channel otherwise,
\* one message per line, and the two channels hold exactly those messages.
HelpRoutedToHelpChan ==
  /\ \A k \in 1..Len(routed) :
       (Fields(routed[k].line)[1] \in {HelpCmd, HelpWord})
         <=> (routed[k].to = "help")
  /\ helpChan = Cardinality({k \in 1..Len(routed) : routed[k].to = "help"})
  /\ Len(commandChan) =
       Cardinality({k \in 1..Len(routed) : routed[k].to = "command"})

\* the qualifying events so far form one burst: each arrived less than the
\* quiet period after the one before it
OneBurst ==
  /\ qualTimes # <<>>
  /\ \A k \in 2..Len(qualTimes) : qualTimes[k] - qualTimes[k - 1] < Quiet

\* the Watcher has nothing left to do for the events delivered so far
WatcherQuiet ==
  /\ dbpc = "select"
  /\ timer = -1
  /\ debounceChan = <<>>
  /\ wpc # "send"

\* C16: for a burst of qualifying events (no other event delivered) at most
\* one file-changed signal is ever sent, and once the Watcher has nothing
\* left to do exactly one has been sent.
BurstGivesOneSignal ==
  (OneBurst /\ otherTimes = <<>>) =>
     /\ Len(signalTimes) <= 1
     /\ WatcherQuiet => Len(signalTimes) = 1

\* C16 witness: a burst of three qualifying events, and its one signal
BurstWitness ==
  /\ OneBurst
  /\ Len(qualTimes) = 3
  /\ otherTimes = <<>>
  /\ WatcherQuiet
  /\ Len(signalTimes) = 1

\* C17: a file-changed signal is sent only when at least the full quiet
\* period has elapsed since the most recent qualifying event.
DelayFromLastEvent ==
  [][signalTimes' # signalTimes =>
       /\ qualTimes # <<>>
       /\ now - qualTimes[Len(qualTimes)] >= Quiet]_vars

\* C17 witness: two qualifying events one tick apart, and one signal sent
\* the quiet period after the second
DelayWitness ==
  /\ Len(qualTimes) = 2
  /\ qualTimes[2] - qualTimes[1] = 1
  /\ signalTimes = <<qualTimes[2] + Quiet>>

\* C18: events that do not qualify produce no signal and do not change what
\* the qualifying events produce: with none but such events no signal is
\* sent, and a burst of qualifying events mixed with any such events still
\* gives at most one signal, and exactly one once the Watcher has nothing
\* left to do.
NonQualifyingIgnored ==
  /\ qualTimes = <<>> => signalTimes = <<>>
  /\ OneBurst =>
       /\ Len(signalTimes) <= 1
       /\ WatcherQuiet => Len(signalTimes) = 1

\* C20: the Watcher that has a start signal receives it only once main has
\* closed the start channel; until it has received it, it holds no watch, has
\* not started its debounce loop, is delivered no event and sends no signal;
\* cancelled while blocked waiting for it, it returns (unless the start signal
\* still arrives), and by the above it has then sent no signal.
StartGate ==
  /\ [](startReceived => startClosed)
  /\ []((wimpl = "deferred" /\ ~startReceived) =>
          /\ ~watching
          /\ dbpc = "none"
          /\ qualTimes = <<>> /\ otherTimes = <<>>
          /\ signalTimes = <<>>)
  /\ ((wpc = "blocked" /\ ctxDone) ~> (wpc = "returned" \/ startReceived))

\* C20 witness: time passed while the Watcher was blocked, the context was
\* cancelled and the Watcher returned without having received the start
\* signal
StartGateWitness ==
  /\ wimpl = "deferred"
  /\ wpc = "returned"
  /\ ~startReceived
  /\ now > 0

\* the entry n, or a directory above it up to the root, has a name that
\* begins with '.'
RECURSIVE UnderHidden(_)
UnderHidden(n) ==
  \/ tree.isDir[n] /\ tree.hidden[n]
  \/ n # 1 /\ UnderHidden(tree.parent[n])

NoSignalAfterReturn ==
  [][(wpc = "returned" /\ ctxDone) => signalTimes' = signalTimes]_vars

\* the dispatcher has printed its initial prompt
Prompted == dpc \notin {"off", "start"}

\* C22: at startup the initial run is executed synchronously and its
\* completion message is received before the prompt is shown; the dispatcher
\* loop is started and the Watcher is released by the start signal only after
\* the prompt; no file-changed signal exists before the completion of the
\* initial run was received
StartupOrder ==
  /\ 1 \in received => runner[1].pc = "returned"
  /\ Prompted => 1 \in received
  /\ dpc \in {"check", "select"} => Prompted
  /\ startClosed => Prompted
  /\ (fileChangeChan > 0 \/ signalTimes # <<>>) => 1 \in received

\* the line is not empty after trimming
NonBlank(l) == TrimSpace(l) # <<>>

\* the line is not empty after trimming and its first token is not the help
\* command
CommandLine(l) == NonBlank(l) /\ Fields(l)[1] # HelpCmd

HelpLine(l) == NonBlank(l) /\ Fields(l)[1] = HelpCmd

\* C23: for an input stream read to its end without cancellation the Reader
\* sends exactly one message for each line that is non-empty after trimming
\* and none for the others; the messages of each channel are in the order of
\* their lines; each command message carries the first token as command name
\* and the remaining tokens as arguments
OneMessagePerLine ==
  (rpc = "done" /\ ~ctxDone) =>
    /\ stdin = <<>>
    /\ [i \in 1..Len(routed) |-> routed[i].line] = SelectSeq(scanned, NonBlank)
    /\ LET cmds == SelectSeq(scanned, CommandLine)
       IN commandChan = [i \in 1..Len(cmds) |->
                           [Command |-> Head(Fields(cmds[i])),
                            Args |-> Tail(Fields(cmds[i]))]]
    /\ helpChan = Len(SelectSeq(scanned, HelpLine))

\* a stream of a blank line and a command with an argument was read to its end
OneMessageWitness ==
  /\ rpc = "done"
  /\ ~ctxDone
  /\ Len(scanned) = 2
  /\ ~NonBlank(scanned[1])
  /\ Len(commandChan) = 1
  /\ commandChan[1].Args # <<>>

\* the gate values taken from the gate channel so far
GateValuesTaken == Len(gateLog) + runnerGate - Len(readyChan)

\* the gate state the values taken so far give: closed until the first one
\* arrives, then the last one taken (the dispatcher is the only sender here)
GateOpen ==
  /\ GateValuesTaken > 0
  /\ GateValuesTaken <= Len(gateLog)
  /\ gateLog[GateValuesTaken]

\* C24: the gate state is closed until the first gate value arrives, and while
\* it is closed the Reader reads, parses and sends no input line
ReadsOnlyWhileGateOpen ==
  [][(scanned' # scanned \/ routed' # routed) => GateOpen]_vars

\* ReadStdin is in a send whose channel is full
SendBlocked ==
  /\ rpc = "send"
  /\ IF parseCommand(line).Command = HelpCmd
     THEN helpChan >= ChanCap
     ELSE Len(commandChan) >= ChanCap

\* C25: every send of the Reader is a choice between the send and
\* cancellation: cancelled while blocked on a full channel it returns without
\* delivering the message; once the context is cancelled it delivers no
\* message for a line read later
SendOrCancel ==
  /\ [][(ctxDone /\ SendBlocked /\ rpc' # rpc)
          => (rpc' = "done" /\ routed' = routed
              /\ commandChan' = commandChan /\ helpChan' = helpChan)]_vars
  /\ [][(ctxDone /\ rpc \in {"scan", "check", "done"})
          => (rpc' \in {"scan", "check", "done"} /\ routed' = routed
              /\ commandChan' = commandChan /\ helpChan' = helpChan)]_vars
  /\ []((ctxDone /\ SendBlocked) => ENABLED SendAbandoned)

\* ReadStdin returned on cancellation with the command channel full, the
\* message of its last line undelivered and a line left unread
SendOrCancelWitness ==
  /\ rpc = "done"
  /\ ctxDone
  /\ Len(commandChan) = ChanCap
  /\ CommandLine(line)
  /\ Len(scanned) = Len(routed) + 1
  /\ stdin # <<>>

\* C26: a command that fails (a name the registry does not hold, or a test
\* path that does not exist or is no directory) returns an error, leaves every
\* field of the configuration record as it was, and leaves the Dispatcher
\* idle, where it accepts the next message.
FailingMessage(m) ==
  \/ m \in CfgMessages /\ m.Command \notin Registered
  \/ m.Command = SetPathCmd /\ Len(m.Args) > 0 /\ PathKind(m.Args[1]) # "dir"

FailedCommandKeepsConfig ==
  /\ [][(cpc = "idle" /\ FailingMessage(lastMsg'))
          => (herr' /\ tc' = tc /\ cpc' = "idle")]_vars
  /\ [][(cpc = "idle" /\ herr') => (tc' = tc /\ cpc' = "idle")]_vars
  /\ []((cpc = "idle" /\ herr) => ENABLED (\E m \in CfgMessages : CfgCommand(m)))

FailedCommandWitness ==
  /\ cpc = "idle"
  /\ herr
  /\ lastMsg = Msg(SetPathCmd, << <<"main.go">> >>)
  /\ tc.TestPath = <<"pkg">>
  /\ tc.Verbose

\* C27: when the filesystem watcher cannot be constructed the process exits
\* before the Dispatcher's loop is entered: the loop never runs beside a
\* Watcher whose construction failed.
LoopEntered == dpc \notin {"off", "start"}

NoLoopWithFailedWatcher == wpc \in {"failed", "panic"} => ~LoopEntered

\* C28: the Runner executes the command built from the configuration: the
\* program is the first token of the configured command base, its arguments
\* are the remaining built tokens in order, and the line displayed before the
\* execution names that invocation, whatever the command base.
RunnerExecutesConfiguredBase ==
  (cpc = "running" /\ tc.CommandBase # <<>>)
    => /\ ran.prog = tc.CommandBase[1]
       /\ ran.args = Tail(Fields(ran.built))
       /\ ran.displayed = <<ran.prog>> \o ran.args

\* C29: BuildCommand yields its tokens in one fixed order: the tokens of the
\* command base, the test path, the enabled boolean flags in the order -v,
\* -race, -failfast, -cover, then -count=N only when N > 0, then
\* -run=<pattern> only when the pattern is not empty, then -skip=<pattern>
\* only when the pattern is not empty.
Opt(on, token) == IF on THEN <<token>> ELSE <<>>

ExpectedTokens(c) ==
  c.CommandBase \o <<c.TestPath>>
  \o Opt(c.Verbose, <<"-v">>) \o Opt(c.Race, <<"-race">>)
  \o Opt(c.FailFast, <<"-failfast">>) \o Opt(c.Cover, <<"-cover">>)
  \o Opt(c.Count > 0, <<"-count=">> \o Itoa(c.Count))
  \o Opt(c.RunPattern # <<>>, <<"-run=">> \o c.RunPattern)
  \o Opt(c.SkipPattern # <<>>, <<"-skip=">> \o c.SkipPattern)

BuildCommandOrder == cpc = "running" => Fields(ran.built) = ExpectedTokens(tc)

BuildCommandOrderWitness ==
  /\ cpc = "running"
  /\ tc.Verbose /\ tc.Race /\ tc.FailFast /\ tc.Cover
  /\ tc.Count = MaxCount
  /\ tc.RunPattern = <<"A">>
  /\ tc.SkipPattern = <<"B">>
  /\ tc.CommandBase = << <<"gotestsum">> >>
  /\ Len(Fields(ran.built)) = 9

\* C30: the repeat count of the configuration record is at least 0 in every
\* reachable state, after the overrides of the command line and after any
\* sequence of calls of the count handler; a negative, non-numeric or empty
\* argument leaves the count as it was.
RejectedCount(args) ==
  \/ Len(args) = 0
  \/ Atoi(args[1]).err
  \/ Atoi(args[1]).n < 0

CountNeverNegative ==
  /\ [](tc.Count >= 0)
  /\ [][(cpc = "idle" /\ lastMsg'.Command = <<"handleCount">>
         /\ RejectedCount(lastMsg'.Args)) => tc'.Count = tc.Count]_vars

\* C31: each cls command toggles the clear-screen option of the configuration
\* (from disabled, one cls enables it and a second disables it again), and a
\* run started while the option is enabled clears the screen first.
ClsHandled == cpc = "idle" /\ lastMsg' = Msg(ClearScreenCmd, <<>>)

ClsTogglesClearScreen ==
  /\ [][(ClsHandled /\ lastMsg # lastMsg')
          => tc'.ClearScreen = ~tc.ClearScreen]_vars
  /\ [](cpc = "running" => ran.cleared = tc.ClearScreen)

\* C32: after the context is cancelled every background task the program
\* started eventually terminates: the Watcher's event loop, its debounce
\* loop, the stdin Reader and any Runner in flight.
WatcherTerminated == wpc \in {"off", "returned"}

DebounceTerminated == dbpc \in {"none", "returned"}

ReaderTerminated == rpc \in {"off", "done"}

RunnersTerminated == \A r \in Runs : runner[r].pc \in {"none", "returned"}

TasksTerminateAfterCancel ==
  ctxDone ~> (/\ WatcherTerminated
              /\ DebounceTerminated
              /\ ReaderTerminated
              /\ RunnersTerminated)

\* C33: a file-changed or command message that its producer sent while a run
\* was in flight never causes a Runner to be spawned or a handler to be
\* invoked, also when it is still queued when the Dispatcher has processed
\* the run-complete message and is idle again.
LateFileChangeTaken == Len(fcLate') < Len(fcLate) /\ Head(fcLate)

LateCommandTaken == Len(cmdLate') < Len(cmdLate) /\ Head(cmdLate)

\* the dispatchers with a running select and an idle select, which the claim
\* is about
TwoSelects == impl \in {"silent", "ack"}

LateMessageIsNoOp ==
  [][(TwoSelects /\ (LateFileChangeTaken \/ LateCommandTaken))
      => (spawned' = spawned /\ handled' = handled)]_vars

\* C34: in the gate-signalling Dispatcher a command message other than
\* force-run, or a help message, received while a run is in flight does not
\* invoke its handler and leaves the configuration record unchanged.
OtherCommandTaken ==
  Len(commandChan') < Len(commandChan) /\ Head(commandChan) # ForceRunCmd

HelpTaken == helpChan' < helpChan

GateIgnoresWhileRunning ==
  [][(impl = "gate" /\ testRunning /\ (OtherCommandTaken \/ HelpTaken))
      => (handled' = handled /\ config' = config)]_vars

\* C35: in the Watcher that hands every event to the debounce loop and
\* filters in the callback, a burst that holds at least one qualifying event
\* still gives exactly one file-changed signal when the last event of the
\* burst is one that does not qualify.
EventTimes ==
  {qualTimes[k] : k \in 1..Len(qualTimes)}
    \cup {otherTimes[k] : k \in 1..Len(otherTimes)}

\* all the events so far, qualifying or not, form one burst
MixedBurst ==
  /\ qualTimes # <<>>
  /\ otherTimes # <<>>
  /\ \A t \in EventTimes :
       \/ \A u \in EventTimes : t <= u
       \/ \E u \in EventTimes : u < t /\ t - u < Quiet

LastDoesNotQualify ==
  otherTimes[Len(otherTimes)] > qualTimes[Len(qualTimes)]

MixedBurstStillSignals ==
  (wimpl = "immediate" /\ MixedBurst /\ LastDoesNotQualify /\ WatcherQuiet)
    => Len(signalTimes) = 1

\* C36: every read of a field of the configuration record by the Runner and
\* every write by a command handler holds the lock of the record, so in no
\* interleaving does the Runner read a field while a handler writes it
\* without the lock.
ReadingNow == IF racc.in THEN RunnerReads[racc.idx].fields ELSE {}

ReadHoldsLock == racc.in /\ RunnerReads[racc.idx].lock /\ rlocks > 0

WriteHoldsLock == hacc.in /\ wlock

NoUnlockedConflict ==
  (hacc.in /\ ReadingNow \cap hacc.fields # {})
    => (ReadHoldsLock /\ WriteHoldsLock)

\* C37: the root directory handed to the Watcher is registered for watching
\* whatever its name, also when the last component of its path begins with
\* '.'; only hidden directories strictly below the root are pruned.
RootAlwaysRegistered == walkpc = "done" => 1 \in registered

\* C38: the Watcher sends a file-changed signal only if at least one
\* qualifying event was received since the signal before it (or since the
\* start): the expiry of the initial timer, and an expiry of the timer with
\* no qualifying event in between, send nothing.
LastSignalTime ==
  IF signalTimes = <<>> THEN 0 ELSE signalTimes[Len(signalTimes)]

SignalNeedsNewEvent ==
  /\ [][signalTimes' # signalTimes
          => \E k \in 1..Len(qualTimes) : qualTimes[k] >= LastSignalTime]_vars
  /\ [][dbpc = "initial" => signalTimes' = signalTimes]_vars

\* C38 witness: two signals, each after its own qualifying event, and an
\* event that does not qualify after the second
SignalNeedsNewEventWitness ==
  /\ Len(signalTimes) = 2
  /\ Len(qualTimes) = 2
  /\ qualTimes[2] >= signalTimes[1]
  /\ WatcherQuiet

\* C39: at every moment at most one completion message is pending on the
\* completion channel, so the Runner's send of it never blocks, and the
\* Dispatcher never takes the completion message of an earlier run for that
\* of a later one.
CompletionTaken == Len(testCompleteChan') < Len(testCompleteChan)

OneCompletionPending ==
  /\ [](Len(testCompleteChan) <= 1)
  /\ [](\A r \in Runs :
          runner[r].pc = "send" => Len(testCompleteChan) < ChanCap)
  /\ [][CompletionTaken => Head(testCompleteChan) = spawned]_vars

\* C39 witness: the completion message of the second run is pending, that of
\* the first was received
OneCompletionWitness ==
  /\ testCompleteChan = <<2>>
  /\ received = {1}
  /\ spawned = 2

\* ---- C40 ----
\* a step of the dispatcher that runs the handler of a command message
CommandHandled == Len(commandChan') < Len(commandChan) /\ handled' = handled + 1

\* a step of the dispatcher that runs the handler of a help message
HelpHandled == helpChan' = helpChan - 1 /\ handled' = handled + 1

\* C40: command and help messages are handled in the order in which their
\* lines were read: the message whose handler runs is the oldest pending
\* message of the two channels, so that a help line read after a command line
\* is never handled before that command, and a command line read after a help
\* line is never handled before that help
HandledInReadOrder ==
  /\ [][CommandHandled => Head(readOrder) = "command"]_vars
  /\ [][HelpHandled => Head(readOrder) = "help"]_vars

====
